---- MODULE Spec2Model ----
(***************************************************************************)
(* Model of the maestro orchestration core: TaskQueue, ConfidenceRouter,   *)
(* ActivityWatchdog and ExecutionLoop.                                     *)
(*                                                                         *)
(* Every handler is written as an operator from a state record s to the    *)
(* state record after the handler, so that the calls a handler makes       *)
(* (queue.update inside handleResponse inside executeTask ...) compose in  *)
(* the order of the source.  An action applies one such operator to the    *)
(* current state: it is the code that runs between two await points.       *)
(***************************************************************************)
EXTENDS Integers, Sequences, FiniteSets, TLC

VARIABLES
    config,        \* ExecutionLoopConfig / RouterConfig, fixed at construction
    queue,         \* TaskQueue: tasks (Map, with its insertion order) and the three id indices
    agentStatus,   \* Agent.status of every registered agent
    agentTask,     \* Agent.currentTaskId (NoId when undefined)
    watchdog,      \* ActivityWatchdog: running, agentStates, taskHandoffs
    loops,         \* one record per run() invocation slot: its position and locals
    running,       \* ExecutionLoop.running
    results,       \* ExecutionLoop.results (task ids, in push order)
    replanAttempts,\* ExecutionLoop.replanAttempts
    emitted,       \* the notifications emitted by the last step (and the errors it
                   \* threw with a payload), in order
    lastOp,        \* the operation the last step performed, with its arguments
    execCount,     \* number of agent executions started so far (bounded)
    usedNew,       \* ids that createTask has already generated for new tasks
    apiCalls,      \* number of direct calls of an interface so far (bounded)
    activity,      \* ActivityWatchdog.agentStates in full, and the AbortControllers
    clock,         \* the time that new Date() returns
    routing,       \* a direct call of ConfidenceRouter.route: its position, the
                   \* candidates it collected, and what it returned or threw
    agentByTask    \* ExecutionLoop.currentAgentByTask: the agent racing for a task

vars == <<config, queue, agentStatus, agentTask, watchdog, loops, running,
          results, replanAttempts, emitted, lastOp, execCount, usedNew, apiCalls,
          activity, clock, routing, agentByTask>>

-----------------------------------------------------------------------------
(* Bounds of the model *)

MaxExecs == 2
MaxHandoffCycles == 1
MaxReplanAttempts == 1
MaxApiCalls == 3
MaxHandoffCalls == 5        \* calls of the watchdog's handoff interface in one behaviour
MaxConfiguredCycles == 3    \* largest maxHandoffCycles the handoff interface is checked with
MaxActivityCalls == 3       \* calls of the watchdog's activity interface in one behaviour
MaxTime == 5                \* the clock stops here
ActivityTimeoutMs == 1      \* config.activityTimeoutMs, in clock units
LlmRequestGracePeriodMs == 3 \* config.llmRequestGracePeriodMs, in clock units

TaskIds == {"t1", "t2", "t3"}
NewIds == {"n1"}
AllIds == TaskIds \cup NewIds
GoneId == "gone"
NoId == "none"

Agents == {"a1", "a2"}
AgentOrder == <<"a1", "a2">>
RouterAgents == {"a1", "a2", "a3"}
RegistryOrder == <<"a1", "a2", "a3">>
NoAgent == "nobody"
Roles == {"implementer", "reviewer"}
NoRole == "norole"

Runs == {1, 2}

-----------------------------------------------------------------------------
(* Sequence helpers *)

Range(seq) == {seq[i] : i \in 1..Len(seq)}

RECURSIVE SeqWithout(_, _)
SeqWithout(seq, x) ==
    IF seq = <<>> THEN <<>>
    ELSE IF Head(seq) = x THEN SeqWithout(Tail(seq), x)
    ELSE <<Head(seq)>> \o SeqWithout(Tail(seq), x)

IndexOf(seq, x) == CHOOSE i \in 1..Len(seq) : seq[i] = x

-----------------------------------------------------------------------------
(* Task.ts *)

NoFailure == [reason |-> "none", failedDependency |-> NoId, replanAttempted |-> FALSE]

createTask(id, priority, createdAt, deps) ==
    [id |-> id, status |-> "pending", priority |-> priority, createdAt |-> createdAt,
     dependencies |-> deps, assignedTo |-> NoRole, failureInfo |-> NoFailure,
     escalated |-> FALSE, attempts |-> <<>>, parentTaskId |-> NoId]

BlankTask(id) == [createTask(id, "medium", 0, {}) EXCEPT !.status = "absent"]

updateTaskStatus(task, status) == [task EXCEPT !.status = status]

\* the error of an attempt record that has none
NoAttemptError == "none"

\* addTaskAttempt(task, {agentId, agentRole, success: false, artifacts: []});
\* completed stands for the completedAt of the record
addTaskAttempt(task, agentId) ==
    [task EXCEPT !.attempts =
        Append(@, [agentId |-> agentId, completed |-> FALSE, success |-> FALSE,
                   error |-> NoAttemptError])]

\* completeTaskAttempt(task, success, output, error): writes the last record
\* of the log, if there is one
completeTaskAttempt(task, success, error) ==
    IF task.attempts = <<>> THEN task
    ELSE [task EXCEPT !.attempts[Len(task.attempts)] =
             [@ EXCEPT !.completed = TRUE, !.success = success, !.error = error]]

canStartTask(task, completedTaskIds) ==
    /\ task.status = "pending"
    /\ \A depId \in task.dependencies : depId \in completedTaskIds

-----------------------------------------------------------------------------
(* Notifications: every emitter appends to s.emitted *)

Ev(src, ev, id, arg) == [src |-> src, ev |-> ev, id |-> id, arg |-> arg]

Emit(s, e) == [s EXCEPT !.emitted = Append(@, e)]

-----------------------------------------------------------------------------
(* TaskQueue.ts *)

PRIORITY_ORDER == [critical |-> 4, high |-> 3, medium |-> 2, low |-> 1]

EmptyQueue ==
    [tasks |-> [id \in AllIds |-> BlankTask(id)], order |-> <<>>,
     completedIds |-> {}, reviewingIds |-> {}, failedIds |-> {}]

\* this.tasks.has(id)
QHas(q, id) == id \in Range(q.order)

\* Array.from(this.tasks.values()): the stored tasks in Map insertion order
QValues(q) == [i \in 1..Len(q.order) |-> q.tasks[q.order[i]]]

\* this.tasks.set(id, task): a new key goes last, an existing key keeps its place
MapSet(q, task) ==
    [q EXCEPT !.tasks[task.id] = task,
              !.order = IF QHas(q, task.id) THEN @ ELSE Append(@, task.id)]

isComplete(q) ==
    \A id \in Range(q.order) : q.tasks[id].status \in {"completed", "failed"}

checkQueueEmpty(s) ==
    IF isComplete(s.queue) THEN Emit(s, Ev("queue", "queueEmpty", NoId, {})) ELSE s

QAdd(s, task) ==
    Emit([s EXCEPT !.queue = MapSet(@, task)], Ev("queue", "taskAdded", task.id, {}))

RECURSIVE QAddMany(_, _)
QAddMany(s, taskSeq) ==
    IF taskSeq = <<>> THEN s ELSE QAddMany(QAdd(s, Head(taskSeq)), Tail(taskSeq))

\* update(task) for an id that is stored; the caller models the throw for an unknown id
QUpdate(s, task) ==
    LET s1 == Emit([s EXCEPT !.queue = MapSet(@, task)],
                   Ev("queue", "taskUpdated", task.id, {task.status}))
    IN  IF task.status = "completed" THEN
            checkQueueEmpty(Emit(
                [s1 EXCEPT !.queue.completedIds = @ \cup {task.id},
                           !.queue.reviewingIds = @ \ {task.id}],
                Ev("queue", "taskCompleted", task.id, {})))
        ELSE IF task.status = "reviewing" THEN
            [s1 EXCEPT !.queue.reviewingIds = @ \cup {task.id}]
        ELSE IF task.status = "failed" THEN
            checkQueueEmpty(Emit(
                [s1 EXCEPT !.queue.failedIds = @ \cup {task.id},
                           !.queue.reviewingIds = @ \ {task.id}],
                Ev("queue", "taskFailed", task.id, {})))
        ELSE s1

satisfiedIds(q) == q.completedIds \cup q.reviewingIds

\* getReady(): ids of the ready tasks, in Map order
getReady(q) ==
    SelectSeq(q.order, LAMBDA id :
        \/ canStartTask(q.tasks[id], satisfiedIds(q))
        \/ q.tasks[id].status = "reviewing")

\* a comparator that stops at the priorities
SortsBeforeByPriority(a, b) ==
    PRIORITY_ORDER[b.priority] - PRIORITY_ORDER[a.priority] < 0

\* the comparator of getNext's sort: a sorts strictly before b
SortsBefore(a, b) ==
    LET priorityDiff == PRIORITY_ORDER[b.priority] - PRIORITY_ORDER[a.priority]
    IN  IF priorityDiff # 0 THEN priorityDiff < 0
        ELSE a.createdAt - b.createdAt < 0

\* getNext(): first element of the stable sort of getReady(); NoId when nothing is ready
getNext(q) ==
    LET ready == getReady(q)
    IN  IF ready = <<>> THEN NoId
        ELSE ready[CHOOSE i \in 1..Len(ready) :
                /\ \A j \in 1..Len(ready) : ~SortsBefore(q.tasks[ready[j]], q.tasks[ready[i]])
                /\ \A j \in 1..(i - 1) : SortsBefore(q.tasks[ready[j]], q.tasks[ready[i]])
                                          \/ SortsBefore(q.tasks[ready[i]], q.tasks[ready[j]])]

getByStatus(q, status) == {id \in Range(q.order) : q.tasks[id].status = status}

getInProgress(q) == getByStatus(q, "in_progress")

hasFailedDependency(q, task) == \E depId \in task.dependencies : depId \in q.failedIds

getBlocked(q) ==
    {id \in Range(q.order) :
        /\ q.tasks[id].status = "pending"
        /\ ~canStartTask(q.tasks[id], satisfiedIds(q))
        /\ ~hasFailedDependency(q, q.tasks[id])}

QRemove(q, taskId) ==
    [q EXCEPT !.tasks[taskId] = BlankTask(taskId),
              !.order = SeqWithout(@, taskId),
              !.completedIds = @ \ {taskId},
              !.reviewingIds = @ \ {taskId},
              !.failedIds = @ \ {taskId}]

RECURSIVE QRemoveAll(_, _)
QRemoveAll(q, idSeq) ==
    IF idSeq = <<>> THEN q ELSE QRemoveAll(QRemove(q, Head(idSeq)), Tail(idSeq))

QClear(q) == EmptyQueue

\* getDependents(taskId): in Map order
getDependents(q, taskId) ==
    SelectSeq(q.order, LAMBDA id : taskId \in q.tasks[id].dependencies)

\* the closure `collect` of getTransitiveDependents: acc is `result` (and `visited`)
RECURSIVE collect(_, _, _)
collect(q, deps, acc) ==
    IF deps = <<>> THEN acc
    ELSE IF Head(deps) \in Range(acc) THEN collect(q, Tail(deps), acc)
    ELSE collect(q, Tail(deps),
                 collect(q, getDependents(q, Head(deps)), Append(acc, Head(deps))))

\* a getTransitiveDependents that stops at the direct dependents
getDirectDependentsOnly(q, taskId) == getDependents(q, taskId)

getTransitiveDependents(q, taskId) == collect(q, getDependents(q, taskId), <<>>)

\* replaceWithRefinedTasks(failedTaskId, newTasks, inheritDependents)
replaceWithRefinedTasks(s, failedTaskId, newTasks, inheritDependents) ==
    IF ~QHas(s.queue, failedTaskId) THEN s
    ELSE
        LET dependents == IF inheritDependents
                          THEN getTransitiveDependents(s.queue, failedTaskId) ELSE <<>>
            s1 == [s EXCEPT !.queue = QRemoveAll(QRemove(@, failedTaskId), dependents)]
            s2 == QAddMany(s1, newTasks)
        IN  Emit(s2, Ev("queue", "taskReplanned", failedTaskId,
                        {newTasks[i].id : i \in 1..Len(newTasks)}))

\* the loop body of cascadeFailure over the dependents collected up front
RECURSIVE cascadeEach(_, _, _)
cascadeEach(s, failedTask, dependents) ==
    IF dependents = <<>> THEN s
    ELSE
        LET dependent == Head(dependents)
            failed == [dependent EXCEPT
                          !.status = "failed",
                          !.failureInfo = [reason |-> "dependency_failed",
                                           failedDependency |-> failedTask.id,
                                           replanAttempted |-> FALSE]]
        IN  IF dependent.status = "pending" THEN
                cascadeEach(
                    Emit([s EXCEPT !.queue.tasks[dependent.id] = failed,
                                   !.queue.failedIds = @ \cup {dependent.id}],
                         Ev("queue", "taskCascadeFailed", dependent.id, {failedTask.id})),
                    failedTask, Tail(dependents))
            ELSE cascadeEach(s, failedTask, Tail(dependents))

\* ids cascadeFailure returns, in order
cascadedIds(q, failedTask) ==
    SelectSeq(getTransitiveDependents(q, failedTask.id),
              LAMBDA id : q.tasks[id].status = "pending")

cascadeFailure(s, failedTask) ==
    LET ids == getTransitiveDependents(s.queue, failedTask.id)
    IN  cascadeEach(s, failedTask, [i \in 1..Len(ids) |-> s.queue.tasks[ids[i]]])

-----------------------------------------------------------------------------
(* Agent.ts, AgentRegistry.ts *)

AgentRole == [a1 |-> "implementer", a2 |-> "reviewer", a3 |-> "implementer"]

\* the status gate at the head of Agent.execute
AgentIsBusy(s, a) == s.agentStatus[a] = "busy"

\* Agent.execute up to its first await: status busy, currentTaskId set
agentBeginExecute(s, a, taskId) ==
    [s EXCEPT !.agentStatus[a] = "busy", !.agentTask[a] = taskId,
              !.execCount = @ + 1]

\* the finally block of Agent.execute
agentEndExecute(s, a) ==
    [s EXCEPT !.agentStatus[a] = "idle", !.agentTask[a] = NoId]

-----------------------------------------------------------------------------
(* ActivityWatchdog *)

WatchdogInit ==
    [running |-> FALSE, agentStates |-> {},
     taskHandoffs |-> [id \in AllIds |-> <<>>]]

watchdogStart(s) ==
    IF ~config.watchdogEnabled \/ s.watchdog.running THEN s
    ELSE [s EXCEPT !.watchdog.running = TRUE]

watchdogStop(s) == [s EXCEPT !.watchdog = WatchdogInit]

createAbortController(s, agentId, taskId) ==
    [s EXCEPT !.watchdog.agentStates = @ \cup {<<agentId, taskId>>}]

clearAgent(s, agentId, taskId) ==
    [s EXCEPT !.watchdog.agentStates = @ \ {<<agentId, taskId>>}]

\* the key `${record.from}->${record.to}` of a handoff record, as the sequence
\* of its parts (a role name is one part)
handoffPattern(record) == <<record[1], "->", record[2]>>

\* a count that takes every return to an earlier source role for a cycle
countReturnsToSource(history) ==
    IF Len(history) < 2 THEN 0
    ELSE Cardinality({i \in 1..Len(history) :
                        \E j \in 1..(i - 1) : history[j][1] = history[i][1]})

\* countHandoffCycles(history): transitions whose pattern was seen earlier
countHandoffCycles(history) ==
    IF Len(history) < 2 THEN 0
    ELSE Cardinality({i \in 1..Len(history) :
                        \E j \in 1..(i - 1) :
                            handoffPattern(history[j]) = handoffPattern(history[i])})

getHandoffCycleCount(s, taskId) == countHandoffCycles(s.watchdog.taskHandoffs[taskId])

\* Math.floor(maxHandoffCycles * 0.8)
WarningThreshold == (config.maxHandoffCycles * 8) \div 10

recordHandoff(s, taskId, fromAgent, toAgent) ==
    IF ~config.watchdogEnabled THEN s
    ELSE
        LET s1 == [s EXCEPT !.watchdog.taskHandoffs[taskId] =
                                Append(@, <<fromAgent, toAgent>>)]
            cycleCount == getHandoffCycleCount(s1, taskId)
            s2 == IF cycleCount = WarningThreshold /\ cycleCount > 0
                  THEN Emit(s1, Ev("watchdog", "handoffCycleWarning", taskId, {cycleCount}))
                  ELSE s1
        IN  IF cycleCount >= config.maxHandoffCycles
            THEN Emit(s2, Ev("watchdog", "handoffCycleExceeded", taskId, {cycleCount}))
            ELSE s2

\* a limit test that never finds the limit reached
handoffLimitNeverExceeded(s, taskId) == FALSE

isHandoffLimitExceeded(s, taskId) ==
    /\ s.watchdog.taskHandoffs[taskId] # <<>>
    /\ getHandoffCycleCount(s, taskId) >= config.maxHandoffCycles

getHandoffHistory(s, taskId) == s.watchdog.taskHandoffs[taskId]

clearTask(s, taskId) == [s EXCEPT !.watchdog.taskHandoffs[taskId] = <<>>]

-----------------------------------------------------------------------------
(* ActivityWatchdog with its clock: the activity states in full. The operators
   above keep the set of tracked pairs; these keep, next to it, what is stored
   for a pair and which AbortControllers were made and aborted. *)

ActivityTasks == {"t1"}

ActivityTypes ==
    {"llm_request_start", "llm_response_received",
     "tool_execution_start", "tool_execution_complete"}

NoState == [agentId |-> NoAgent]
NoHandle == 0

\* getAgentKey: `${agentId}:${taskId}`, as the sequence of its parts
getAgentKey(agentId, taskId) == <<agentId, ":", taskId>>

ActivityKeys == {getAgentKey(a, t) : a \in Agents, t \in ActivityTasks}

\* states: agentStates; nextHandle: the next new AbortController; aborted: the
\* controllers whose signal is aborted; obtained and log: the controllers
\* returned for a key and the activity types recorded for it since its state
\* was created
ActivityInit ==
    [states |-> [k \in ActivityKeys |-> NoState],
     nextHandle |-> 1,
     aborted |-> {},
     obtained |-> [k \in ActivityKeys |-> {}],
     log |-> [k \in ActivityKeys |-> <<>>]]

forgetKey(s, key) ==
    [s EXCEPT !.activity.states[key] = NoState,
              !.activity.obtained[key] = {},
              !.activity.log[key] = <<>>]

wdStart(s) == watchdogStart(s)

wdStop(s) ==
    [watchdogStop(s) EXCEPT
        !.activity.states = [k \in ActivityKeys |-> NoState],
        !.activity.obtained = [k \in ActivityKeys |-> {}],
        !.activity.log = [k \in ActivityKeys |-> <<>>]]

\* recordActivity(event); llmRequestStartTime is written and never read
wdRecordActivity(s, event) ==
    IF ~config.watchdogEnabled THEN s
    ELSE
        LET key == getAgentKey(event.agentId, event.taskId)
            old == s.activity.states[key]
            state == IF old # NoState THEN old
                     ELSE [agentId |-> event.agentId, taskId |-> event.taskId,
                           lastActivity |-> event.timestamp,
                           lastActivityType |-> event.type,
                           inLlmRequest |-> FALSE,
                           abortController |-> NoHandle]
            updated == [state EXCEPT
                           !.lastActivity = event.timestamp,
                           !.lastActivityType = event.type,
                           !.inLlmRequest =
                               IF event.type = "llm_request_start" THEN TRUE
                               ELSE IF event.type = "llm_response_received" THEN FALSE
                               ELSE @]
        IN  [s EXCEPT !.watchdog.agentStates = @ \cup {<<event.agentId, event.taskId>>},
                      !.activity.states[key] = updated,
                      !.activity.log[key] = Append(@, event.type)]

\* createAbortController(agentId, taskId); the controller it returns is
\* s.activity.nextHandle
wdCreateAbortController(s, agentId, taskId) ==
    LET controller == s.activity.nextHandle
        key == getAgentKey(agentId, taskId)
        state == s.activity.states[key]
        s1 == [createAbortController(s, agentId, taskId) EXCEPT
                  !.activity.nextHandle = @ + 1,
                  !.activity.obtained[key] = @ \cup {controller}]
    IN  IF state # NoState
        THEN [s1 EXCEPT !.activity.states[key].abortController = controller]
        ELSE [s1 EXCEPT !.activity.states[key] =
                            [agentId |-> agentId, taskId |-> taskId,
                             lastActivity |-> s.clock,
                             lastActivityType |-> "llm_request_start",
                             inLlmRequest |-> FALSE,
                             abortController |-> controller]]

wdGetAbortController(s, agentId, taskId) ==
    LET state == s.activity.states[getAgentKey(agentId, taskId)]
    IN  IF state = NoState THEN NoHandle ELSE state.abortController

wdClearAgent(s, agentId, taskId) ==
    forgetKey(clearAgent(s, agentId, taskId), getAgentKey(agentId, taskId))

\* a timeout that does not know the grace period
activityTimeoutOnly(state) == config.activityTimeoutMs

getEffectiveTimeout(state) ==
    IF config.gracePeriodsEnabled /\ state.inLlmRequest
    THEN config.llmRequestGracePeriodMs
    ELSE config.activityTimeoutMs

\* a test that takes a pair for stuck as soon as its timeout is reached
isStuckAtTimeout(s, state) ==
    s.clock - state.lastActivity >= getEffectiveTimeout(state)

\* the test of checkForStuckAgents: elapsedMs > timeoutMs
isStuck(s, state) ==
    s.clock - state.lastActivity > getEffectiveTimeout(state)

\* the body of the for loop of checkForStuckAgents for every key of the set,
\* one after the other
RECURSIVE checkEach(_, _)
checkEach(s, keys) ==
    IF keys = {} THEN s
    ELSE
        LET key == CHOOSE k \in keys : TRUE
            state == s.activity.states[key]
        IN  IF state # NoState /\ isStuck(s, state) THEN
                LET s1 == Emit(s, Ev("watchdog", "agentStuck", state.taskId,
                                     {<<state.agentId, s.clock - state.lastActivity>>}))
                    s2 == IF state.abortController # NoHandle
                             /\ state.abortController \notin s1.activity.aborted
                          THEN [s1 EXCEPT !.activity.aborted = @ \cup {state.abortController}]
                          ELSE s1
                IN  checkEach(forgetKey([s2 EXCEPT !.watchdog.agentStates =
                                                      @ \ {<<state.agentId, state.taskId>>}],
                                        key),
                              keys \ {key})
            ELSE checkEach(s, keys \ {key})

\* checkForStuckAgents; the order in which the Map yields the pairs is not
\* kept, so the order of the agentStuck notifications of one call is arbitrary
checkForStuckAgents(s) == checkEach(s, ActivityKeys)

-----------------------------------------------------------------------------
(* ConfidenceRouter.ts *)

ConfidenceThreshold == 6     \* the default of config.confidenceThreshold, in tenths
MaxConfidence == 10          \* the largest confidence an assessment has, in tenths
HighConfidence == 9          \* the early exit of assessSequential, in tenths
Scores == {0, 8}

\* registry.getAll(): the registered agents in the order of their registration
getAll(s) == SelectSeq(RegistryOrder, LAMBDA a : a \in DOMAIN s.agentStatus)

\* the registered agents outside the excluded roles, whatever their status
agentsOfOtherRoles(s, excludeRoles) ==
    SelectSeq(getAll(s), LAMBDA a : AgentRole[a] \notin excludeRoles)

\* the filter at the head of route(): not of an excluded role, and idle now
eligibleAgents(s, excludeRoles) ==
    SelectSeq(getAll(s), LAMBDA a : AgentRole[a] \notin excludeRoles
                                    /\ s.agentStatus[a] = "idle")

\* the candidates of route() as the execution loop calls it, with no role excluded
routeCandidates(s) == eligibleAgents(s, {})

\* assessParallel: every candidate is assessed, in the candidates' order
assessParallel(agents, sc) == agents

\* assessSequential: in order, stopping after the first confidence >= 0.9
RECURSIVE assessSequential(_, _)
assessSequential(agents, sc) ==
    IF agents = <<>> THEN <<>>
    ELSE IF sc[Head(agents)] >= HighConfidence THEN <<Head(agents)>>
    ELSE <<Head(agents)>> \o assessSequential(Tail(agents), sc)

\* the assessments route() works with
assessAgents(agents, sc) ==
    IF config.parallelAssessment THEN assessParallel(agents, sc)
    ELSE assessSequential(agents, sc)

\* the assessments left in the order in which they came back
keepAssessmentOrder(cands, sc) == cands

\* assessments.sort((a, b) => b.score.confidence - a.score.confidence), a stable sort
sortByConfidence(cands, sc) ==
    LET n == Len(cands)
        rank(i) == 1 + Cardinality({j \in 1..n :
                        \/ sc[cands[j]] > sc[cands[i]]
                        \/ (sc[cands[j]] = sc[cands[i]] /\ j < i)})
    IN  [k \in 1..n |-> cands[CHOOSE i \in 1..n : rank(i) = k]]

\* the first of the assessments whose agent is idle now
selectBestIdleCandidate(s, sorted) ==
    LET idle == SelectSeq(sorted, LAMBDA a : s.agentStatus[a] = "idle")
    IN  IF idle = <<>> THEN NoAgent ELSE idle[1]

\* selectRecoveryCandidate: the last of the assessments whose agent is idle now
selectRecoveryCandidate(s, sorted) ==
    LET idle == SelectSeq(sorted, LAMBDA a : s.agentStatus[a] = "idle")
    IN  IF idle = <<>> THEN NoAgent ELSE idle[Len(idle)]

\* what an assessTask call gave: a confidence, or a thrown error
Scored(confidence) == [threw |-> FALSE, confidence |-> confidence]

NoScore == 0 - 1

AssessThrew == [threw |-> TRUE, confidence |-> NoScore]

\* the confidence of a thrown assessment left as it is
confidenceAsGiven(result) == result.confidence

\* the try/catch around assessTask in assessParallel and assessSequential:
\* a call that throws becomes the confidence 0
caughtConfidence(result) == IF result.threw THEN 0 ELSE result.confidence

\* an assessment as route() reports it: the agent and its confidence
Assessment(a, sc) == [agentId |-> a, confidence |-> sc[a]]

Assessments(agents, sc) == [i \in 1..Len(agents) |-> Assessment(agents[i], sc)]

NoError == [name |-> "none"]

NoConfidentAgentError(taskId, assessments, recoveryAttempted) ==
    [name |-> "NoConfidentAgentError", taskId |-> taskId,
     assessments |-> assessments, threshold |-> config.confidenceThreshold,
     recoveryAttempted |-> recoveryAttempted]

\* the recoveryAttempt of a decision that did not come from a recovery
NoRecoveryAttempt ==
    [attempted |-> FALSE, success |-> FALSE, agent |-> NoAgent,
     originalScore |-> NoScore, enhancedScore |-> NoScore]

\* one assessTask call: the agent asked and the context it was asked with
AssessCall(a, context) == [agentId |-> a, context |-> context]

\* what a route() call returned (ok) or threw (error); recovery is the
\* recoveryAttempt of the decision, calls the assessTask calls it made, in order
RoutingOutcome(ok, agent, score, alternatives, recovery, error, calls) ==
    [ok |-> ok, agent |-> agent, score |-> score, alternatives |-> alternatives,
     recovery |-> recovery, error |-> error, calls |-> calls]

\* route() found no idle agent outside the excluded roles
routeNoCandidates(s, taskId) ==
    RoutingOutcome(FALSE, NoAgent, NoScore, <<>>, NoRecoveryAttempt,
                   NoConfidentAgentError(taskId, <<>>, FALSE), <<>>)

\* attemptRecovery after the candidate's re-assessment with the enhanced
\* context came back; a re-assessment that threw is a failed recovery
attemptRecovery(candidate, sc, enhanced) ==
    IF enhanced.threw
    THEN [NoRecoveryAttempt EXCEPT !.attempted = TRUE]
    ELSE [attempted |-> TRUE, agent |-> candidate, originalScore |-> sc[candidate],
          enhancedScore |-> enhanced.confidence,
          success |-> enhanced.confidence >= config.confidenceThreshold]

\* route() after the assessments came back: given holds what assessTask gave
\* for each agent, enhanced what the recovery re-assessment gave
route(s, taskId, cands, given, enhanced) ==
    LET sc == [a \in DOMAIN given |-> caughtConfidence(given[a])]
        assessed == assessAgents(cands, sc)
        sorted == sortByConfidence(assessed, sc)
        best == sorted[1]
        candidate == selectRecoveryCandidate(s, sorted)
        first == [i \in 1..Len(assessed) |-> AssessCall(assessed[i], "given")]
        again == Append(first, AssessCall(candidate, "enhanced"))
        recovery == attemptRecovery(candidate, sc, enhanced)
    IN  IF sc[best] >= config.confidenceThreshold
        THEN RoutingOutcome(TRUE, best, sc[best], Assessments(Tail(sorted), sc),
                            NoRecoveryAttempt, NoError, first)
        ELSE IF config.routerRecovery /\ candidate # NoAgent
             THEN IF recovery.success
                  THEN RoutingOutcome(TRUE, candidate, recovery.enhancedScore,
                           Assessments(SeqWithout(sorted, candidate), sc),
                           recovery, NoError, again)
                  ELSE RoutingOutcome(FALSE, NoAgent, NoScore, <<>>,
                           NoRecoveryAttempt,
                           NoConfidentAgentError(taskId, Assessments(sorted, sc),
                                                 config.routerRecovery),
                           again)
             ELSE RoutingOutcome(FALSE, NoAgent, NoScore, <<>>, NoRecoveryAttempt,
                      NoConfidentAgentError(taskId, Assessments(sorted, sc),
                                            config.routerRecovery),
                      first)

\* what the execution loop reads of a route() call whose assessments gave the
\* confidences sc and whose re-assessment gave enh: whether it returned, the
\* agent it returned, and whether that agent came from the recovery
routeDecision(s, cands, sc, enh) ==
    LET sorted == sortByConfidence(assessAgents(cands, sc), sc)
        best == sorted[1]
        candidate == selectRecoveryCandidate(s, sorted)
    IN  IF sc[best] >= config.confidenceThreshold
        THEN [ok |-> TRUE, agent |-> best, recovery |-> FALSE]
        ELSE IF /\ config.routerRecovery
                /\ candidate # NoAgent
                /\ enh >= config.confidenceThreshold
             THEN [ok |-> TRUE, agent |-> candidate, recovery |-> TRUE]
             ELSE [ok |-> FALSE, agent |-> NoAgent, recovery |-> FALSE]

\* no route() call was made directly yet
NoRouting ==
    [pc |-> "idle", taskId |-> NoId, excludeRoles |-> {}, agents |-> <<>>,
     outcome |-> RoutingOutcome(FALSE, NoAgent, NoScore, <<>>, NoRecoveryAttempt,
                                NoError, <<>>)]

-----------------------------------------------------------------------------
(* ExecutionLoop.ts *)

\* the locals of one run() call. The fields executions, caught and retried
\* count what the current executeTask call did so far: executeWithTimeout
\* calls, entries of the catch block with a retriable error, and taskRetrying
\* notifications. The field completedTasks lists the tasks that this run()
\* call has stored as completed; it is kept when the call has ended.
IdleLoop ==
    [pc |-> "idle", cur |-> BlankTask(NoId), attempt |-> 0, agent |-> NoAgent,
     cands |-> <<>>, aborted |-> FALSE,
     executions |-> 0, caught |-> 0, retried |-> 0, completedTasks |-> <<>>]

\* the locals between two executeTask calls, and after run()
LoopAt(s, r, pc) ==
    [IdleLoop EXCEPT !.pc = pc, !.completedTasks = s.loops[r].completedTasks]

LoopEv(ev, id, arg) == Ev("loop", ev, id, arg)

\* the while loop of run(), entered at its head; defined after executeTask
RECURSIVE runLoop(_, _)

\* currentAgentByTask without an entry
NoAgentByTask == [id \in AllIds |-> NoAgent]

\* a finally block of run() that leaves the watchdog and the agent map alone
finallyRunOnlyFlag(s, r) ==
    [s EXCEPT !.running = FALSE, !.loops[r] = LoopAt(s, r, "idle")]

\* the finally block of run()
finallyRun(s, r) ==
    watchdogStop([s EXCEPT !.running = FALSE, !.loops[r] = LoopAt(s, r, "idle"),
                           !.agentByTask = NoAgentByTask])

\* an error leaving run(): the catch block, then the finally block
throwOutOfRun(s, r, what) ==
    finallyRun(Emit(s, LoopEv("loopError", NoId, {what})), r)

\* executeTask returns: control is back in the while loop of run()
returnToRun(s, r) ==
    runLoop([s EXCEPT !.loops[r] = LoopAt(s, r, "delay")], r)

\* guards that do not look at the task's replan-attempt counter
canAttemptRecoveryAgain(s, taskId) ==
    /\ config.recoveryEnabled
    /\ config.hasPlanner

\* the guards at the head of attemptRecovery
canAttemptRecovery(s, taskId) ==
    /\ config.recoveryEnabled
    /\ config.hasPlanner
    /\ s.replanAttempts[taskId] < MaxReplanAttempts

RECURSIVE emitCascaded(_, _, _)
emitCascaded(s, ids, failedId) ==
    IF ids = <<>> THEN s
    ELSE emitCascaded(Emit(s, LoopEv("taskCascadeFailed", Head(ids), {failedId})),
                      Tail(ids), failedId)

\* handleTaskFailure after attemptRecovery returned false
recoveryFailed(s, r, failedTask) ==
    LET s1 == IF config.cascadeOnReplanFailure
              THEN emitCascaded(cascadeFailure(s, failedTask),
                                cascadedIds(s.queue, failedTask), failedTask.id)
              ELSE s
    IN  returnToRun(s1, r)

\* handleTaskFailure, up to the await of refineTask inside attemptRecovery
handleTaskFailure(s, r, task, reason) ==
    LET failedTask == [task EXCEPT
                          !.status = "failed",
                          !.failureInfo = [reason |-> reason, failedDependency |-> NoId,
                                           replanAttempted |-> FALSE]]
    IN  IF ~QHas(s.queue, task.id) THEN throwOutOfRun(s, r, "not_found")
        ELSE
            LET s1 == Emit(QUpdate(s, failedTask), LoopEv("taskFailed", task.id, {reason}))
            IN  IF canAttemptRecovery(s1, task.id) THEN
                    Emit([s1 EXCEPT !.replanAttempts[task.id] = @ + 1,
                                    !.loops[r].pc = "replanning",
                                    !.loops[r].cur = failedTask],
                         LoopEv("taskReplanStarted", task.id, {}))
                ELSE recoveryFailed(s1, r, failedTask)

\* the rest of attemptRecovery and handleTaskFailure once refineTask settled
plannerSettled(s, r, outcome, newTasks) ==
    LET failedTask == s.loops[r].cur
    IN  IF outcome = "tasks" /\ newTasks # <<>> THEN
            LET s1 == Emit(replaceWithRefinedTasks(s, failedTask.id, newTasks, TRUE),
                           LoopEv("taskReplanned", failedTask.id,
                                  {newTasks[i].id : i \in 1..Len(newTasks)}))
                s2 == [s1 EXCEPT !.usedNew = @ \cup {newTasks[i].id : i \in 1..Len(newTasks)}]
                stored == s2.queue.tasks[failedTask.id]
            IN  IF QHas(s2.queue, failedTask.id) /\ stored.failureInfo.reason # "none"
                THEN returnToRun(
                        QUpdate(s2, [stored EXCEPT !.failureInfo.replanAttempted = TRUE]), r)
                ELSE returnToRun(s2, r)
        ELSE recoveryFailed(Emit(s, LoopEv("taskReplanFailed", failedTask.id, {})),
                            r, failedTask)

\* the catch block of executeTask for NoConfidentAgentError and
\* HandoffCycleLimitError
catchNotRetriable(s, r, task, reason) ==
    handleTaskFailure(s, r, completeTaskAttempt(task, FALSE, reason), reason)

\* the finally block of executeWithTimeout
endRace(s, r) ==
    clearAgent([s EXCEPT !.agentByTask[s.loops[r].cur.id] = NoAgent],
               s.loops[r].agent, s.loops[r].cur.id)

\* a catch block that is never reached: the race stays pending
catchNothing(s, r, reason) == s

\* a catch block that allows one attempt more than maxRetries
catchRetriableOnceMore(s, r, reason) ==
    LET l == s.loops[r]
        currentTask == completeTaskAttempt(l.cur, FALSE, reason)
    IN  IF ~QHas(s.queue, l.cur.id) THEN throwOutOfRun(s, r, "not_found")
        ELSE
            LET s1 == QUpdate([s EXCEPT !.loops[r].caught = @ + 1,
                                        !.loops[r].cur = currentTask], currentTask)
            IN  IF l.attempt <= config.maxRetries THEN
                    Emit([s1 EXCEPT !.loops[r].pc = "backoff",
                                    !.loops[r].retried = @ + 1],
                         LoopEv("taskRetrying", l.cur.id, {l.attempt}))
                ELSE handleTaskFailure(s1, r, currentTask, reason)

\* the catch block of executeTask for an error that is neither NoConfidentAgent
\* nor HandoffCycleLimit
catchRetriable(s, r, reason) ==
    LET l == s.loops[r]
        currentTask == completeTaskAttempt(l.cur, FALSE, reason)
    IN  IF ~QHas(s.queue, l.cur.id) THEN throwOutOfRun(s, r, "not_found")
        ELSE
            LET s1 == QUpdate([s EXCEPT !.loops[r].caught = @ + 1,
                                        !.loops[r].cur = currentTask], currentTask)
            IN  IF l.attempt < config.maxRetries THEN
                    Emit([s1 EXCEPT !.loops[r].pc = "backoff",
                                    !.loops[r].retried = @ + 1],
                         LoopEv("taskRetrying", l.cur.id, {l.attempt}))
                ELSE handleTaskFailure(s1, r, currentTask, reason)

\* one iteration of the for loop of executeTask, up to the await inside route()
beginAttempt(s, r) ==
    LET cands == routeCandidates(s)
    IN  IF cands = <<>>
        THEN catchNotRetriable(s, r, s.loops[r].cur, "no_confident_agent")
        ELSE [s EXCEPT !.loops[r].pc = "routing", !.loops[r].cands = cands,
                       !.loops[r].agent = NoAgent, !.loops[r].aborted = FALSE]

\* executeTask(task), up to its first await
executeTask(s, r, task) ==
    LET currentTask == updateTaskStatus(task, "assigned")
    IN  beginAttempt(
            QUpdate([s EXCEPT !.loops[r] = [LoopAt(s, r, "routing")
                                               EXCEPT !.cur = currentTask,
                                                      !.attempt = 1]],
                    currentTask), r)

\* executeTask after route() returned agent a, up to the await of the race
startExecution(s, r, a) ==
    LET l == s.loops[r]
        currentTask == addTaskAttempt(
                           [l.cur EXCEPT !.assignedTo = AgentRole[a],
                                         !.status = "in_progress"], a)
        s0 == Emit(s, LoopEv("taskRouted", l.cur.id, {a}))
    IN  IF ~QHas(s.queue, l.cur.id) THEN throwOutOfRun(s0, r, "not_found")
        ELSE
            LET s1 == Emit(QUpdate([s0 EXCEPT !.loops[r].cur = currentTask,
                                              !.loops[r].agent = a], currentTask),
                           LoopEv("taskStarted", currentTask.id, {a}))
                s2 == createAbortController(
                          [s1 EXCEPT !.loops[r].executions = @ + 1,
                                     !.agentByTask[currentTask.id] = a],
                          a, currentTask.id)
            IN  IF AgentIsBusy(s2, a)
                THEN catchRetriable(endRace(s2, r), r, "execution_error")
                ELSE [agentBeginExecute(s2, a, currentTask.id)
                        EXCEPT !.loops[r].pc = "executing"]

NextActions == {"complete", "handoff", "retry", "escalate", "other", "none"}

Responses ==
    {resp \in [success : BOOLEAN, next : NextActions, target : Roles \cup {NoRole}] :
        resp.target # NoRole => resp.next = "handoff"}

\* the status handleResponse gives the task
statusAfterReview(a) ==
    IF config.reviewRequired /\ AgentRole[a] # "reviewer" THEN "reviewing" ELSE "completed"

\* a reading of the response whose handoff does not reassign the task
interpretResponseKeepingAssignee(task, resp, a) ==
    IF resp.next = "complete" THEN updateTaskStatus(task, "completed")
    ELSE IF resp.next \in {"handoff", "retry"} THEN updateTaskStatus(task, "pending")
    ELSE IF resp.next = "escalate" THEN
        updateTaskStatus([task EXCEPT !.escalated = TRUE], "failed")
    ELSE IF resp.next = "other" THEN updateTaskStatus(task, statusAfterReview(a))
    ELSE IF resp.success THEN updateTaskStatus(task, statusAfterReview(a))
    ELSE updateTaskStatus(task, "failed")

\* the task that handleResponse computes from the response
interpretResponse(task, resp, a) ==
    IF resp.next = "complete" THEN updateTaskStatus(task, "completed")
    ELSE IF resp.next = "handoff" THEN
        [updateTaskStatus(task, "pending") EXCEPT
            !.assignedTo = IF resp.target # NoRole THEN resp.target ELSE @]
    ELSE IF resp.next = "retry" THEN updateTaskStatus(task, "pending")
    ELSE IF resp.next = "escalate" THEN
        updateTaskStatus([task EXCEPT !.escalated = TRUE], "failed")
    ELSE IF resp.next = "other" THEN updateTaskStatus(task, statusAfterReview(a))
    ELSE IF resp.success THEN updateTaskStatus(task, statusAfterReview(a))
    ELSE updateTaskStatus(task, "failed")

\* the HandoffCycleLimitError that handleResponse throws, as an entry of the
\* step's trace: the count, the configured limit and the history it carries
HandoffCycleLimitError(s, taskId) ==
    Ev("error", "HandoffCycleLimitError", taskId,
       {[handoffCount |-> getHandoffCycleCount(s, taskId),
         maxHandoffs |-> config.maxHandoffCycles,
         history |-> getHandoffHistory(s, taskId)]})

\* a reroute that is charged like an error: the counter goes on
attemptAfterFailedOne(attempt) == attempt + 1

\* `attempt = 0; continue`, then the attempt++ of the for statement
attemptAfterReroute(attempt) == 1

\* handleResponse and the rest of the for-loop body of executeTask
handleResponse(s, r, resp) ==
    LET l == s.loops[r]
        task == l.cur
        handoff == resp.next = "handoff" /\ resp.target # NoRole
        s1 == IF handoff THEN recordHandoff(s, task.id, AgentRole[l.agent], resp.target)
              ELSE s
        updatedTask == interpretResponse(
                           completeTaskAttempt(task, resp.success,
                               IF resp.success THEN NoAttemptError ELSE "Execution failed"),
                           resp, l.agent)
    IN  IF handoff /\ isHandoffLimitExceeded(s1, task.id) THEN
            catchNotRetriable(clearTask(Emit(s1, HandoffCycleLimitError(s1, task.id)),
                                        task.id),
                              r, task, "handoff_limit")
        ELSE IF ~QHas(s1.queue, task.id) THEN throwOutOfRun(s1, r, "not_found")
        ELSE
            LET s2 == QUpdate([s1 EXCEPT !.loops[r].cur = updatedTask], updatedTask)
            IN  IF updatedTask.status = "completed" THEN
                    returnToRun(Emit([s2 EXCEPT !.results = Append(@, task.id),
                                              !.loops[r].completedTasks = Append(@, task.id)],
                                     LoopEv("taskCompleted", task.id, {})), r)
                ELSE IF updatedTask.status = "pending" THEN
                    beginAttempt([s2 EXCEPT !.loops[r].attempt = attemptAfterReroute(@)], r)
                ELSE IF l.attempt + 1 <= config.maxRetries THEN
                    beginAttempt([s2 EXCEPT !.loops[r].attempt = @ + 1], r)
                ELSE returnToRun(s2, r)


\* a deadlock test that asks for a task in progress instead of none
deadlockWhileInProgress(q) == getBlocked(q) # {} /\ getInProgress(q) # {}

\* the deadlock test of run()
deadlockDetected(q) == getBlocked(q) # {} /\ getInProgress(q) = {}

runLoop(s, r) ==
    IF isComplete(s.queue) \/ ~s.running
    THEN finallyRun(Emit(s, LoopEv("loopCompleted", NoId, {})), r)
    ELSE IF getNext(s.queue) = NoId THEN
        IF deadlockDetected(s.queue) THEN throwOutOfRun(s, r, "deadlock")
        ELSE [s EXCEPT !.loops[r] = LoopAt(s, r, "delay")]
    ELSE executeTask(s, r, s.queue.tasks[getNext(s.queue)])

\* run(), when it does not refuse re-entry, up to its first await
runStart(s, r) ==
    runLoop(watchdogStart(Emit([s EXCEPT !.running = TRUE, !.results = <<>>,
                                          !.loops[r].completedTasks = <<>>],
                               LoopEv("loopStarted", NoId, {}))), r)

-----------------------------------------------------------------------------
(* The state as a record, and back *)

St ==
    [queue |-> queue, agentStatus |-> agentStatus, agentTask |-> agentTask,
     watchdog |-> watchdog, loops |-> loops, running |-> running,
     results |-> results, replanAttempts |-> replanAttempts,
     emitted |-> <<>>, execCount |-> execCount, usedNew |-> usedNew,
     apiCalls |-> apiCalls, activity |-> activity, clock |-> clock,
     routing |-> routing, agentByTask |-> agentByTask]

\* what the last step did: an operation of the loop r, or a call of the queue
\* interface with its arguments
Op(op, r) == [op |-> op, r |-> r, id |-> NoId, new |-> <<>>, inherit |-> FALSE]

ApiOp(op, id, new, inherit) ==
    [op |-> op, r |-> 0, id |-> id, new |-> new, inherit |-> inherit]

Apply(s, op) ==
    /\ queue' = s.queue
    /\ agentStatus' = s.agentStatus
    /\ agentTask' = s.agentTask
    /\ watchdog' = s.watchdog
    /\ loops' = s.loops
    /\ running' = s.running
    /\ results' = s.results
    /\ replanAttempts' = s.replanAttempts
    /\ emitted' = s.emitted
    /\ execCount' = s.execCount
    /\ usedNew' = s.usedNew
    /\ apiCalls' = s.apiCalls
    /\ activity' = s.activity
    /\ clock' = s.clock
    /\ routing' = s.routing
    /\ agentByTask' = s.agentByTask
    /\ lastOp' = op
    /\ UNCHANGED config

NonTerminal == {"pending", "assigned", "in_progress", "reviewing"}
Terminal == {"completed", "failed"}

StoredIds == Range(queue.order)

StatusOf(id) == queue.tasks[id].status

-----------------------------------------------------------------------------
(* Initial states: the configuration and the planned tasks *)

Configs ==
    [maxRetries : {1, 2}, reviewRequired : BOOLEAN, recoveryEnabled : BOOLEAN,
     hasPlanner : {TRUE}, cascadeOnReplanFailure : BOOLEAN,
     watchdogEnabled : {TRUE}, maxHandoffCycles : {MaxHandoffCycles},
     routerRecovery : {TRUE}, parallelAssessment : {TRUE},
     confidenceThreshold : {ConfidenceThreshold}]

\* dependency graphs of the planned tasks: a chain, and a task with one
\* dependent next to a task that hangs on an id that is not in the queue
Graphs ==
    { [t1 |-> {}, t2 |-> {"t1"}, t3 |-> {"t2"}],
      [t1 |-> {}, t2 |-> {GoneId}, t3 |-> {"t1"}] }

\* the first plan of Graphs: each task waits for the one before it
ChainOfTasks == [t1 |-> {}, t2 |-> {"t1"}, t3 |-> {"t2"}]

Priorities ==
    { [t1 |-> "medium", t2 |-> "medium", t3 |-> "high"] }

PlannedQueue(g, p) ==
    [EmptyQueue EXCEPT
        !.tasks = [id \in AllIds |->
                     IF id \in TaskIds THEN createTask(id, p[id], 0, g[id])
                     ELSE BlankTask(id)],
        !.order = <<"t1", "t2", "t3">>]

\* the objects right after their construction, with the agents registered
ConstructedWith(registered) ==
    /\ agentStatus = [a \in registered |-> "idle"]
    /\ agentTask = [a \in registered |-> NoId]
    /\ watchdog = WatchdogInit
    /\ loops = [r \in Runs |-> IdleLoop]
    /\ running = FALSE
    /\ results = <<>>
    /\ replanAttempts = [id \in AllIds |-> 0]
    /\ emitted = <<>>
    /\ lastOp = Op("init", 0)
    /\ execCount = 0
    /\ usedNew = {}
    /\ apiCalls = 0
    /\ activity = ActivityInit
    /\ clock = 0
    /\ routing = NoRouting
    /\ agentByTask = NoAgentByTask

Constructed == ConstructedWith(Agents)

Init ==
    /\ config \in Configs
    /\ \E g \in Graphs, p \in Priorities : queue = PlannedQueue(g, p)
    /\ Constructed

-----------------------------------------------------------------------------
(* Actions: the code that runs between two await points *)

\* run() is called
Run(r) ==
    /\ loops[r].pc = "idle"
    /\ IF running
       THEN Apply(St, Op("runRefused", r))
       ELSE Apply(runStart(St, r), Op("run", r))

\* run() is called by a caller that waits for the previous run() to return
RunAlone(r) ==
    /\ \A r2 \in Runs : loops[r2].pc = "idle"
    /\ r = 1
    /\ Run(r)

\* stop() is called
Stop ==
    /\ running
    /\ Apply([St EXCEPT !.running = FALSE], Op("stop", 0))

\* the delay(100) of run() elapsed
DelayDone(r) ==
    /\ loops[r].pc = "delay"
    /\ Apply(runLoop(St, r), Op("delayDone", r))

\* the assessments of route() came back
RouteSettled(r) ==
    /\ loops[r].pc = "routing"
    /\ \E sc \in [Agents -> Scores], enh \in Scores :
        LET d == routeDecision(St, loops[r].cands, sc, enh)
        IN  IF d.ok
            THEN /\ AgentIsBusy(St, d.agent) \/ execCount < MaxExecs
                 /\ Apply(startExecution(St, r, d.agent), Op("routed", r))
            ELSE Apply(catchNotRetriable(St, r, loops[r].cur, "no_confident_agent"),
                       Op("routeFailed", r))

\* agent.execute resolved first
AgentResponds(r) ==
    /\ loops[r].pc = "executing"
    /\ ~loops[r].aborted
    /\ \E resp \in Responses :
        Apply(handleResponse(endRace(agentEndExecute(St, loops[r].agent), r), r, resp),
              Op("response", r))

\* agent.execute rejected first
AgentThrows(r) ==
    /\ loops[r].pc = "executing"
    /\ ~loops[r].aborted
    /\ Apply(catchRetriable(endRace(agentEndExecute(St, loops[r].agent), r), r,
                            "execution_error"),
             Op("agentError", r))

\* the deadline of the race fired first; the agent's execution goes on
TaskTimeout(r) ==
    /\ loops[r].pc = "executing"
    /\ ~loops[r].aborted
    /\ Apply(catchRetriable(endRace(St, r), r, "timeout"),
             Op("timeout", r))

\* the abort signal of the race fired first; the agent's execution goes on
StuckAbort(r) ==
    /\ loops[r].pc = "executing"
    /\ loops[r].aborted
    /\ Apply(catchRetriable(endRace(St, r), r, "agent_stuck"),
             Op("stuck", r))

\* the backoff delay of executeTask elapsed
BackoffDone(r) ==
    /\ loops[r].pc = "backoff"
    /\ Apply(beginAttempt([St EXCEPT !.loops[r].attempt = @ + 1], r),
             Op("backoffDone", r))

\* TaskPlanner.refineTask settled: it threw, returned no task, or returned one
\* task made by createTask (a fresh id, pending, no dependencies, the failed
\* task as metadata.parentTaskId)
PlannerSettled(r) ==
    /\ loops[r].pc = "replanning"
    /\ \E outcome \in {"throw", "empty", "tasks"} :
        /\ outcome = "tasks" => NewIds \ usedNew # {}
        /\ LET n == CHOOSE id \in NewIds : id \notin usedNew
               newTasks == IF outcome = "tasks"
                           THEN <<[createTask(n, "medium", 1, {})
                                      EXCEPT !.parentTaskId = loops[r].cur.id]>>
                           ELSE <<>>
           IN  Apply(plannerSettled(St, r, outcome, newTasks),
                     Op("planner", r))

\* an execution the loop abandoned ends: the finally block of Agent.execute
AgentFinish(a) ==
    /\ agentStatus[a] = "busy"
    /\ \A r \in Runs : ~(loops[r].pc = "executing" /\ loops[r].agent = a)
    /\ Apply(agentEndExecute(St, a), Op("agentFinish", 0))

\* checkForStuckAgents finds the pair (a, t) silent for longer than its timeout
WatchdogTick(a, t) ==
    /\ watchdog.running
    /\ <<a, t>> \in watchdog.agentStates
    /\ Apply(Emit([St EXCEPT
                     !.watchdog.agentStates = @ \ {<<a, t>>},
                     !.loops = [r \in Runs |->
                                  IF /\ loops[r].pc = "executing"
                                     /\ loops[r].agent = a
                                     /\ loops[r].cur.id = t
                                  THEN [loops[r] EXCEPT !.aborted = TRUE]
                                  ELSE loops[r]]],
                   Ev("watchdog", "agentStuck", t, {a})),
             Op("tick", 0))

Step ==
    \/ Stop
    \/ \E r \in Runs : DelayDone(r)
    \/ \E r \in Runs : RouteSettled(r)
    \/ \E r \in Runs : AgentResponds(r)
    \/ \E r \in Runs : AgentThrows(r)
    \/ \E r \in Runs : TaskTimeout(r)
    \/ \E r \in Runs : StuckAbort(r)
    \/ \E r \in Runs : BackoffDone(r)
    \/ \E r \in Runs : PlannerSettled(r)
    \/ \E a \in Agents : AgentFinish(a)
    \/ \E a \in Agents, t \in AllIds : WatchdogTick(a, t)

\* one run() at a time: the caller awaits run() before calling it again
Next ==
    \/ \E r \in Runs : RunAlone(r)
    \/ Step

Spec == Init /\ [][Next]_vars

\* any interleaving of run() and stop() calls
NextReentry ==
    \/ \E r \in Runs : Run(r)
    \/ Step

\* the configurations of the loop that is entered again: retries and recovery
\* each on or off
ReentryConfigs ==
    {c \in Configs : c.reviewRequired /\ c.cascadeOnReplanFailure}

InitReentry ==
    /\ config \in ReentryConfigs
    /\ \E p \in Priorities : queue = PlannedQueue(ChainOfTasks, p)
    /\ Constructed

SpecReentry == InitReentry /\ [][NextReentry]_vars

-----------------------------------------------------------------------------
(* The task queue driven directly through its public interface *)

QueueConfig ==
    [maxRetries |-> 1, reviewRequired |-> TRUE, recoveryEnabled |-> TRUE,
     hasPlanner |-> TRUE, cascadeOnReplanFailure |-> TRUE,
     watchdogEnabled |-> TRUE, maxHandoffCycles |-> MaxHandoffCycles,
     routerRecovery |-> TRUE, parallelAssessment |-> TRUE,
     confidenceThreshold |-> ConfidenceThreshold]

InitQueue == Init /\ config = QueueConfig

ApiCall(s, op) ==
    /\ apiCalls < MaxApiCalls
    /\ Apply([s EXCEPT !.apiCalls = @ + 1], op)

\* tasks as createTask makes them for a caller: a fresh id, pending
FreshTasks(deps) ==
    {createTask(n, "medium", 1, d) : n \in NewIds \ usedNew, d \in deps}

\* queue.add(task) with a new task
ApiAdd ==
    \E task \in FreshTasks({{}}) :
        ApiCall([QAdd(St, task) EXCEPT !.usedNew = @ \cup {task.id}],
                ApiOp("add", task.id, <<task>>, FALSE))

\* queue.update(task) with a stored task in another status
ApiUpdate ==
    \E id \in StoredIds, status \in NonTerminal \cup Terminal :
        ApiCall(QUpdate(St, updateTaskStatus(queue.tasks[id], status)),
                ApiOp("update", id, <<>>, FALSE))

\* queue.remove(taskId)
ApiRemove ==
    \E id \in AllIds :
        ApiCall([St EXCEPT !.queue = QRemove(@, id)], ApiOp("remove", id, <<>>, FALSE))

\* queue.replaceWithRefinedTasks(failedTaskId, newTasks, inheritDependents)
ApiReplace ==
    \E id \in AllIds, inherit \in BOOLEAN :
        \E newTasks \in {<<>>} \cup
                {<<t>> : t \in FreshTasks({{}, queue.tasks[id].dependencies})} :
            ApiCall([replaceWithRefinedTasks(St, id, newTasks, inherit)
                        EXCEPT !.usedNew = @ \cup {newTasks[i].id : i \in 1..Len(newTasks)}],
                    ApiOp("replace", id, newTasks, inherit))

\* queue.cascadeFailure(failedTask) with a stored task
ApiCascade ==
    \E id \in StoredIds :
        ApiCall(cascadeFailure(St, queue.tasks[id]), ApiOp("cascade", id, <<>>, FALSE))

\* queue.clear()
ApiClear ==
    ApiCall([St EXCEPT !.queue = QClear(@)], ApiOp("clear", NoId, <<>>, FALSE))

NextQueue ==
    \/ ApiAdd
    \/ ApiUpdate
    \/ ApiRemove
    \/ ApiReplace
    \/ ApiCascade
    \/ ApiClear

SpecQueue == InitQueue /\ [][NextQueue]_vars

-----------------------------------------------------------------------------
(* Every public method of the task queue, called with any argument *)

\* how a call of a queue method ended: the state it left, whether it threw, and
\* what it returned (<<>> for void and for undefined)
Returned(s, value) == [state |-> s, threw |-> FALSE, value |-> value]
Threw(s) == [state |-> s, threw |-> TRUE, value |-> <<>>]

add(s, task) == Returned(QAdd(s, task), <<>>)

get(s, taskId) ==
    Returned(s, IF QHas(s.queue, taskId) THEN <<s.queue.tasks[taskId]>> ELSE <<>>)

\* an update(task) without the test of its first line
updateWithoutHas(s, task) == Returned(QUpdate(s, task), <<>>)

update(s, task) ==
    IF ~QHas(s.queue, task.id) THEN Threw(s)
    ELSE Returned(QUpdate(s, task), <<>>)

remove(s, taskId) ==
    Returned([s EXCEPT !.queue = QRemove(@, taskId)], <<QHas(s.queue, taskId)>>)

getStats(q) ==
    [total |-> Len(q.order),
     pending |-> Cardinality(getByStatus(q, "pending")),
     inProgress |-> Cardinality(getInProgress(q)),
     completed |-> Cardinality(q.completedIds),
     failed |-> Cardinality(getByStatus(q, "failed")),
     blocked |-> Cardinality(getBlocked(q))]

QueueMethods ==
    {"add", "get", "update", "getNext", "getReady", "getBlocked", "remove",
     "replaceWithRefinedTasks", "cascadeFailure", "getStats"}

\* plans of three tasks: the two chains of Graphs and three independent tasks
MethodGraphs == Graphs \cup {[t1 |-> {}, t2 |-> {}, t3 |-> {}]}

MethodPriorities ==
    { [t1 |-> "low", t2 |-> "critical", t3 |-> "high"],
      [t1 |-> "medium", t2 |-> "medium", t3 |-> "high"],
      [t1 |-> "high", t2 |-> "high", t3 |-> "high"] }

\* creation times: in the order of insertion, and against it
MethodCreationTimes ==
    { [t1 |-> 0, t2 |-> 0, t3 |-> 0],
      [t1 |-> 1, t2 |-> 0, t3 |-> 0] }

InitMethods ==
    /\ config = QueueConfig
    /\ \E g \in MethodGraphs, p \in MethodPriorities, c \in MethodCreationTimes :
          queue = [EmptyQueue EXCEPT
                      !.tasks = [id \in AllIds |->
                                   IF id \in TaskIds THEN createTask(id, p[id], c[id], g[id])
                                   ELSE BlankTask(id)],
                      !.order = <<"t1", "t2", "t3">>]
    /\ Constructed

\* the call, its argument and how it ended
MethodOp(op, id, outcome) ==
    [op |-> op, r |-> 0, id |-> id, new |-> outcome.value, inherit |-> FALSE,
     threw |-> outcome.threw]

MethodCall(op, id, outcome) == ApiCall(outcome.state, MethodOp(op, id, outcome))

\* a task object with this id as a caller may hold it: the stored one, or one
\* that is not (or no longer) in the queue
TaskObject(id) ==
    IF QHas(queue, id) THEN queue.tasks[id] ELSE createTask(id, "medium", 1, {})

CallAdd ==
    \E task \in FreshTasks({{}}) :
        MethodCall("add", task.id,
                   add([St EXCEPT !.usedNew = @ \cup {task.id}], task))

CallGet == \E id \in AllIds : MethodCall("get", id, get(St, id))

CallUpdate ==
    \E id \in AllIds, status \in NonTerminal \cup Terminal :
        MethodCall("update", id, update(St, updateTaskStatus(TaskObject(id), status)))

CallGetNext ==
    MethodCall("getNext", NoId,
               Returned(St, IF getNext(queue) = NoId THEN <<>> ELSE <<getNext(queue)>>))

CallGetReady == MethodCall("getReady", NoId, Returned(St, getReady(queue)))

CallGetBlocked == MethodCall("getBlocked", NoId, Returned(St, <<getBlocked(queue)>>))

CallRemove == \E id \in AllIds : MethodCall("remove", id, remove(St, id))

CallReplace ==
    \E id \in AllIds, inherit \in BOOLEAN :
        \E newTasks \in {<<>>} \cup {<<t>> : t \in FreshTasks({{}})} :
            MethodCall("replaceWithRefinedTasks", id,
                Returned([replaceWithRefinedTasks(St, id, newTasks, inherit)
                             EXCEPT !.usedNew = @ \cup {newTasks[i].id : i \in 1..Len(newTasks)}],
                         <<>>))

CallCascade ==
    \E id \in AllIds :
        MethodCall("cascadeFailure", id,
                   Returned(cascadeFailure(St, TaskObject(id)),
                            cascadedIds(queue, TaskObject(id))))

CallGetStats == MethodCall("getStats", NoId, Returned(St, <<getStats(queue)>>))

NextMethods ==
    \/ CallAdd
    \/ CallGet
    \/ CallUpdate
    \/ CallGetNext
    \/ CallGetReady
    \/ CallGetBlocked
    \/ CallRemove
    \/ CallReplace
    \/ CallCascade
    \/ CallGetStats

SpecMethods == InitMethods /\ [][NextMethods]_vars

\* the loop with and without a TaskPlanner, with recovery enabled or not
RecoveryConfigs ==
    {[QueueConfig EXCEPT !.recoveryEnabled = en, !.hasPlanner = pl,
                         !.cascadeOnReplanFailure = ca, !.reviewRequired = rv,
                         !.maxRetries = mr] :
        en \in BOOLEAN, pl \in BOOLEAN, ca \in BOOLEAN, rv \in BOOLEAN,
        mr \in {1, 2}}

InitRecovery ==
    /\ config \in RecoveryConfigs
    /\ \E g \in Graphs, p \in Priorities : queue = PlannedQueue(g, p)
    /\ Constructed

SpecRecovery == InitRecovery /\ [][Next]_vars

\* the same while run() may be called again before the previous call returned,
\* so that one task can fail more than once
BudgetConfigs ==
    {[QueueConfig EXCEPT !.recoveryEnabled = en, !.hasPlanner = pl] :
        en \in BOOLEAN, pl \in BOOLEAN}
    \cup {[QueueConfig EXCEPT !.maxRetries = 2]}

InitBudget ==
    /\ config \in BudgetConfigs
    /\ \E p \in Priorities : queue = PlannedQueue(ChainOfTasks, p)
    /\ Constructed

SpecBudget == InitBudget /\ [][NextReentry]_vars

\* the loop observed together with the responses that its agents give
ResponseConfigs ==
    {[QueueConfig EXCEPT !.reviewRequired = rv, !.maxRetries = mr] :
        rv \in BOOLEAN, mr \in {1, 2}}

InitResponses ==
    /\ config \in ResponseConfigs
    /\ \E g \in Graphs, p \in Priorities : queue = PlannedQueue(g, p)
    /\ Constructed

\* agent.execute resolved first, with the response resp
AgentRespondsWith(r) ==
    /\ loops[r].pc = "executing"
    /\ ~loops[r].aborted
    /\ \E resp \in Responses :
        Apply(handleResponse(endRace(agentEndExecute(St, loops[r].agent), r), r, resp),
              [Op("respondsWith", r) EXCEPT !.new = <<resp>>])

NextResponses ==
    \/ \E r \in Runs : RunAlone(r)
    \/ Stop
    \/ \E r \in Runs : DelayDone(r)
    \/ \E r \in Runs : RouteSettled(r)
    \/ \E r \in Runs : AgentRespondsWith(r)
    \/ \E r \in Runs : AgentThrows(r)
    \/ \E r \in Runs : TaskTimeout(r)
    \/ \E r \in Runs : StuckAbort(r)
    \/ \E r \in Runs : BackoffDone(r)
    \/ \E r \in Runs : PlannerSettled(r)
    \/ \E a \in Agents : AgentFinish(a)
    \/ \E a \in Agents, t \in AllIds : WatchdogTick(a, t)

SpecResponses == InitResponses /\ [][NextResponses]_vars

\* the loop with the timers of the race: setTimeout fires the deadline of a
\* pending race, and an aborted signal rejects it
\* one attempt per task with replanning, and two attempts per task without
AttemptConfigs ==
    {QueueConfig,
     [QueueConfig EXCEPT !.maxRetries = 2, !.recoveryEnabled = FALSE,
                         !.reviewRequired = FALSE]}

InitAttempts ==
    /\ config \in AttemptConfigs
    /\ \E p \in Priorities : queue = PlannedQueue(ChainOfTasks, p)
    /\ Constructed

\* the step TaskTimeout(r), told by the operation it records: the timer of the
\* race is armed as long as the race is pending and the signal is not aborted
TimeoutFires(r) ==
    /\ loops[r].pc = "executing"
    /\ ~loops[r].aborted
    /\ lastOp' = Op("timeout", r)

\* the step StuckAbort(r), told by the operation it records: the abort listener
\* of the race rejects as long as the race is pending on an aborted signal
AbortFires(r) ==
    /\ loops[r].pc = "executing"
    /\ loops[r].aborted
    /\ lastOp' = Op("stuck", r)

SpecAttempts ==
    /\ InitAttempts
    /\ [][Next]_vars
    /\ \A r \in Runs : WF_lastOp(TimeoutFires(r)) /\ WF_lastOp(AbortFires(r))

\* the steps DelayDone(r), RouteSettled(r), BackoffDone(r) and PlannerSettled(r),
\* told by the operation they record: the timers of delay() fire, and the
\* promises of route() and refineTask() settle
DelayFires(r) ==
    /\ loops[r].pc = "delay"
    /\ lastOp' = Op("delayDone", r)

RouteFires(r) ==
    /\ loops[r].pc = "routing"
    /\ lastOp' \in {Op("routed", r), Op("routeFailed", r)}

BackoffFires(r) ==
    /\ loops[r].pc = "backoff"
    /\ lastOp' = Op("backoffDone", r)

PlannerFires(r) ==
    /\ loops[r].pc = "replanning"
    /\ lastOp' = Op("planner", r)

\* every await of the loop comes to an end: each timer fires, the promises of
\* the router and the planner settle, and the race of an execution is settled
\* by its deadline or its abort signal if the agent does not answer
AwaitsEnd(r) ==
    /\ WF_lastOp(DelayFires(r))
    /\ WF_lastOp(RouteFires(r))
    /\ WF_lastOp(BackoffFires(r))
    /\ WF_lastOp(PlannerFires(r))
    /\ WF_lastOp(TimeoutFires(r))
    /\ WF_lastOp(AbortFires(r))

\* the loop, one run() at a time, with every await coming to an end
SpecProgress == Init /\ [][Next]_vars /\ \A r \in Runs : AwaitsEnd(r)

-----------------------------------------------------------------------------
(* Properties of the task queue *)

\* every dependency of the stored task id is stored with status completed or reviewing
DepsSatisfiedByStatus(id) ==
    \A d \in queue.tasks[id].dependencies :
        QHas(queue, d) /\ StatusOf(d) \in {"completed", "reviewing"}

\* C1: in every reachable state a stored task is returned by getReady() if and
\* only if it is pending and every one of its dependencies currently has status
\* completed or reviewing, or it has status reviewing itself.
C1_ReadyIffDependenciesSatisfied ==
    \A id \in StoredIds :
        (id \in Range(getReady(queue)))
            <=> \/ StatusOf(id) = "pending" /\ DepsSatisfiedByStatus(id)
                \/ StatusOf(id) = "reviewing"

\* C2: completedIds, reviewingIds and failedIds are exactly the ids of the
\* stored tasks whose current status is completed, reviewing and failed.
C2_IndicesMatchStatuses ==
    /\ queue.completedIds = {id \in StoredIds : StatusOf(id) = "completed"}
    /\ queue.reviewingIds = {id \in StoredIds : StatusOf(id) = "reviewing"}
    /\ queue.failedIds = {id \in StoredIds : StatusOf(id) = "failed"}

-----------------------------------------------------------------------------
(* The handoff bookkeeping of the watchdog, called directly *)

HandoffTasks == {"t1", "t2"}

HandoffConfigs ==
    {[QueueConfig EXCEPT !.watchdogEnabled = e, !.maxHandoffCycles = n] :
        e \in BOOLEAN, n \in 1..MaxConfiguredCycles}

InitHandoffs ==
    /\ config \in HandoffConfigs
    /\ \E g \in Graphs, p \in Priorities : queue = PlannedQueue(g, p)
    /\ Constructed

HandoffCall(s, op) ==
    /\ apiCalls < MaxHandoffCalls
    /\ Apply([s EXCEPT !.apiCalls = @ + 1], op)

\* watchdog.recordHandoff(taskId, fromAgent, toAgent)
ApiRecordHandoff ==
    \E id \in HandoffTasks, from \in Roles, to \in Roles :
        HandoffCall(recordHandoff(St, id, from, to),
                    ApiOp("recordHandoff", id, <<from, to>>, FALSE))

\* watchdog.clearTask(taskId)
ApiClearTask ==
    \E id \in HandoffTasks :
        HandoffCall(clearTask(St, id), ApiOp("clearTask", id, <<>>, FALSE))

\* watchdog.stop()
ApiWatchdogStop ==
    HandoffCall(watchdogStop(St), ApiOp("watchdogStop", NoId, <<>>, FALSE))

NextHandoffs ==
    \/ ApiRecordHandoff
    \/ ApiClearTask
    \/ ApiWatchdogStop

SpecHandoffs == InitHandoffs /\ [][NextHandoffs]_vars

-----------------------------------------------------------------------------
(* The activity tracking of the watchdog, called directly, with the clock *)

ActivityConfigs ==
    [watchdogEnabled : BOOLEAN, gracePeriodsEnabled : BOOLEAN,
     activityTimeoutMs : {ActivityTimeoutMs},
     llmRequestGracePeriodMs : {LlmRequestGracePeriodMs},
     maxHandoffCycles : {MaxHandoffCycles}]

InitActivity ==
    /\ config \in ActivityConfigs
    /\ queue = EmptyQueue
    /\ Constructed

ActivityCall(s, op) ==
    /\ apiCalls < MaxActivityCalls
    /\ Apply([s EXCEPT !.apiCalls = @ + 1], op)

\* watchdog.start()
ApiWatchdogStart ==
    ActivityCall(wdStart(St), ApiOp("start", NoId, <<>>, FALSE))

\* watchdog.stop()
ApiActivityStop ==
    ActivityCall(wdStop(St), ApiOp("stop", NoId, <<>>, FALSE))

\* watchdog.recordActivity(event), the event stamped with the current time as
\* Agent.emitActivity stamps it
ApiRecordActivity ==
    \E type \in ActivityTypes, a \in Agents, t \in ActivityTasks :
        ActivityCall(wdRecordActivity(St, [type |-> type, agentId |-> a, taskId |-> t,
                                           timestamp |-> clock]),
                     ApiOp("recordActivity", t, <<a, type>>, FALSE))

\* watchdog.createAbortController(agentId, taskId)
ApiCreateAbortController ==
    \E a \in Agents, t \in ActivityTasks :
        ActivityCall(wdCreateAbortController(St, a, t),
                     ApiOp("createAbortController", t, <<a, activity.nextHandle>>, FALSE))

\* watchdog.clearAgent(agentId, taskId)
ApiClearAgent ==
    \E a \in Agents, t \in ActivityTasks :
        ActivityCall(wdClearAgent(St, a, t), ApiOp("clearAgent", t, <<a>>, FALSE))

\* the interval of start() fires
IntervalFires ==
    /\ watchdog.running
    /\ Apply(checkForStuckAgents(St), Op("checkForStuckAgents", 0))

\* time passes
ClockAdvances ==
    /\ clock < MaxTime
    /\ Apply([St EXCEPT !.clock = @ + 1], Op("clock", 0))

NextActivity ==
    \/ ApiWatchdogStart
    \/ ApiActivityStop
    \/ ApiRecordActivity
    \/ ApiCreateAbortController
    \/ ApiClearAgent
    \/ IntervalFires
    \/ ClockAdvances

SpecActivity == InitActivity /\ [][NextActivity]_vars

-----------------------------------------------------------------------------
(* ConfidenceRouter.route called directly, while the agents come and go *)

RouterTask == "t1"
RouterScores == {0, ConfidenceThreshold, HighConfidence, MaxConfidence}
RouterResults == {Scored(c) : c \in RouterScores} \cup {AssessThrew}
RouterThresholds == {ConfidenceThreshold, MaxConfidence}
ExcludedRoleSets == SUBSET Roles

RouterConfigs ==
    {[QueueConfig EXCEPT !.routerRecovery = rr, !.parallelAssessment = pa,
                         !.confidenceThreshold = th] :
        rr \in BOOLEAN, pa \in BOOLEAN, th \in RouterThresholds}

InitRouter ==
    /\ config \in RouterConfigs
    /\ queue = EmptyQueue
    /\ ConstructedWith(RouterAgents)

\* route(task, context, excludeRoles) up to its first await: the candidates
\* are collected, and with none of them the call throws at once
ApiRoute(excludeRoles) ==
    /\ routing.pc = "idle"
    /\ LET agents == eligibleAgents(St, excludeRoles)
           called == [NoRouting EXCEPT !.taskId = RouterTask,
                                       !.excludeRoles = excludeRoles,
                                       !.agents = agents]
       IN  IF agents = <<>>
           THEN Apply([St EXCEPT !.routing =
                          [called EXCEPT !.outcome = routeNoCandidates(St, RouterTask)]],
                      ApiOp("route", RouterTask, excludeRoles, FALSE))
           ELSE Apply([St EXCEPT !.routing = [called EXCEPT !.pc = "assessing"]],
                      ApiOp("route", RouterTask, excludeRoles, FALSE))

\* the assessments came back, each with a confidence or a thrown error, and
\* with them the recovery re-assessment where route() asks for one
ApiRouteReturns ==
    /\ routing.pc = "assessing"
    /\ \E given \in [RouterAgents -> RouterResults], enhanced \in RouterResults :
        Apply([St EXCEPT !.routing =
                  [routing EXCEPT !.pc = "idle",
                                  !.outcome = route(St, routing.taskId, routing.agents,
                                                    given, enhanced)]],
              ApiOp("routeReturns", routing.taskId, <<given, enhanced>>, FALSE))

\* an agent starts or ends an execution: Agent.execute sets the status to busy
\* and its finally block sets it back to idle
AgentStatusChanges(a) ==
    Apply([St EXCEPT !.agentStatus[a] = IF @ = "idle" THEN "busy" ELSE "idle"],
          ApiOp("agentStatus", NoId, <<a>>, FALSE))

NextRouter ==
    \/ \E excludeRoles \in ExcludedRoleSets : ApiRoute(excludeRoles)
    \/ ApiRouteReturns
    \/ \E a \in RouterAgents : AgentStatusChanges(a)

SpecRouter == InitRouter /\ [][NextRouter]_vars

-----------------------------------------------------------------------------
(* Properties of the execution loop *)

\* the transitions of the status state machine
AllowedTransition(from, to) ==
    \/ <<from, to>> \in {<<"pending", "assigned">>, <<"assigned", "in_progress">>,
                         <<"in_progress", "reviewing">>, <<"in_progress", "completed">>,
                         <<"in_progress", "failed">>, <<"in_progress", "pending">>,
                         <<"reviewing", "completed">>, <<"reviewing", "failed">>}
    \/ from \in NonTerminal /\ to = "failed"

\* the statuses the step wrote for id, in the order of the writes
WrittenStatuses(id) ==
    LET writes == SelectSeq(emitted', LAMBDA e :
                      /\ e.src = "queue"
                      /\ e.id = id
                      /\ e.ev \in {"taskUpdated", "taskCascadeFailed"})
    IN  [i \in 1..Len(writes) |->
            IF writes[i].ev = "taskCascadeFailed" THEN "failed"
            ELSE CHOOSE st \in writes[i].arg : TRUE]

\* the status id had before the step, followed by the statuses the step wrote
StatusChain(id) ==
    <<IF QHas(queue, id) THEN StatusOf(id) ELSE "pending">> \o WrittenStatuses(id)

\* the loop r is in the middle of an attempt on the task id
Attempting(l, id) == l.cur.id = id /\ l.pc \in {"routing", "executing", "backoff"}

\* C3: every status change that the execution loop writes to the queue for a
\* task is a transition of the state machine (pending to assigned, assigned to
\* in_progress, in_progress to reviewing, completed, failed or pending,
\* reviewing to completed or failed, any non-terminal status to failed).
C3_WritesFollowStateMachine ==
    [][\A id \in AllIds :
          LET chain == StatusChain(id)
          IN  \A i \in 1..(Len(chain) - 1) :
                  chain[i] # chain[i + 1] => AllowedTransition(chain[i], chain[i + 1])]_vars

\* C4: once the stored status of a task is completed or failed, no later step
\* of the loop changes its status, routes it or executes it again; the task
\* can only leave the queue.
C4_TerminalStatusIsFinal ==
    [][\A id \in AllIds :
          (QHas(queue, id) /\ StatusOf(id) \in Terminal) =>
              /\ \A i \in 1..Len(WrittenStatuses(id)) : WrittenStatuses(id)[i] = StatusOf(id)
              /\ QHas(queue', id) => queue'.tasks[id].status = StatusOf(id)
              /\ \A r \in Runs :
                    Attempting(loops'[r], id) =>
                        loops'[r].pc = loops[r].pc /\ loops[r].cur.id = id]_vars

\* C5: every task that the loop moves to status failed and stops working on
\* (cascaded dependents aside) has failureInfo stored on it in the queue and a
\* taskFailed notification emitted by the loop for it.
C5_FailedTaskHasFailureInfo ==
    [][\A id \in AllIds :
          (/\ QHas(queue', id)
           /\ queue'.tasks[id].status = "failed"
           /\ ~(QHas(queue, id) /\ StatusOf(id) = "failed")
           /\ queue'.tasks[id].failureInfo.reason # "dependency_failed"
           /\ \A r \in Runs : ~Attempting(loops'[r], id))
          => /\ queue'.tasks[id].failureInfo.reason # "none"
             /\ \E i \in 1..Len(emitted') :
                    emitted'[i] = LoopEv("taskFailed", id,
                                         {queue'.tasks[id].failureInfo.reason})]_vars

\* the stored tasks that depend on a member of S, directly or through others
RECURSIVE DependentsClosure(_, _)
DependentsClosure(q, S) ==
    LET more == S \cup {id \in Range(q.order) : q.tasks[id].dependencies \cap S # {}}
    IN  IF more = S THEN S ELSE DependentsClosure(q, more)

TransitiveDependentsOf(q, a) ==
    DependentsClosure(q, {id \in Range(q.order) : a \in q.tasks[id].dependencies})

\* the loop r is working on the task id: attempting it or replanning it
WorkingOn(l, id) == Attempting(l, id) \/ (l.cur.id = id /\ l.pc = "replanning")

\* the step left the task id failed for good: it is stored as failed, no loop
\* works on it any more, and before the step it was not failed or was worked on
FailedForGood(id) ==
    /\ QHas(queue', id)
    /\ queue'.tasks[id].status = "failed"
    /\ queue'.tasks[id].failureInfo.reason # "dependency_failed"
    /\ \A r \in Runs : ~WorkingOn(loops'[r], id)
    /\ \/ ~(QHas(queue, id) /\ StatusOf(id) = "failed")
       \/ \E r \in Runs : WorkingOn(loops[r], id)

EventCount(evs, e) == Cardinality({i \in 1..Len(evs) : evs[i] = e})

\* C6: when task A fails terminally, recovery does not succeed and
\* cascadeOnReplanFailure is true, every transitive dependent of A that was
\* pending is failed afterwards with reason dependency_failed and
\* failedDependency A, is in failedIds and produced exactly one
\* taskCascadeFailed notification; a task the cascade does not reach is not
\* changed by it (it changes only through an update of the loop).
C6_CascadeReachesPendingDependents ==
    [][config.cascadeOnReplanFailure =>
        /\ \A a \in AllIds : FailedForGood(a) =>
              \A t \in TransitiveDependentsOf(queue, a) :
                  StatusOf(t) = "pending" =>
                      /\ QHas(queue', t)
                      /\ queue'.tasks[t].status = "failed"
                      /\ queue'.tasks[t].failureInfo.reason = "dependency_failed"
                      /\ queue'.tasks[t].failureInfo.failedDependency = a
                      /\ t \in queue'.failedIds
                      /\ EventCount(emitted', LoopEv("taskCascadeFailed", t, {a})) = 1
                      /\ EventCount(emitted', Ev("queue", "taskCascadeFailed", t, {a})) = 1
        /\ \A t \in AllIds :
              (/\ QHas(queue, t) /\ QHas(queue', t)
               /\ queue'.tasks[t] # queue.tasks[t]
               /\ WrittenStatuses(t) = <<>>)
              => \E a \in AllIds : FailedForGood(a) /\ t \in TransitiveDependentsOf(queue, a)
                                     /\ StatusOf(t) = "pending"]_vars

-----------------------------------------------------------------------------
(* Properties of the queue interface *)

IdsOf(taskSeq) == {taskSeq[i].id : i \in 1..Len(taskSeq)}

InIndices(q, id) ==
    <<id \in q.completedIds, id \in q.reviewingIds, id \in q.failedIds>>

\* C7: replaceWithRefinedTasks(A, N, true) on a stored task A removes A and
\* every transitive dependent of A from the queue and from the three indices,
\* inserts exactly the tasks of N, leaves every other stored task (and its
\* place and its index entries) unchanged and emits taskReplanned(A, N) exactly
\* once; when A is not stored the call changes nothing and emits nothing.
C7_ReplaceRemovesDependentsOnly ==
    [][(lastOp'.op = "replace" /\ (lastOp'.inherit \/ ~QHas(queue, lastOp'.id))) =>
        LET a == lastOp'.id
            n == lastOp'.new
            gone == {a} \cup TransitiveDependentsOf(queue, a)
        IN  IF ~QHas(queue, a) THEN queue' = queue /\ emitted' = <<>>
            ELSE
                /\ \A g \in gone :
                      /\ ~QHas(queue', g)
                      /\ InIndices(queue', g) = <<FALSE, FALSE, FALSE>>
                /\ \A i \in 1..Len(n) : queue'.tasks[n[i].id] = n[i]
                /\ queue'.order = SelectSeq(queue.order, LAMBDA t : t \notin gone)
                                    \o [i \in 1..Len(n) |-> n[i].id]
                /\ \A t \in StoredIds \ gone :
                      /\ queue'.tasks[t] = queue.tasks[t]
                      /\ InIndices(queue', t) = InIndices(queue, t)
                /\ EventCount(emitted', Ev("queue", "taskReplanned", a, IdsOf(n))) = 1
                /\ \A i \in 1..Len(emitted') :
                      emitted'[i].ev = "taskReplanned" =>
                          emitted'[i] = Ev("queue", "taskReplanned", a, IdsOf(n))]_vars

\* C7 witness: the first call on the chain t1 <- t2 <- t3 replaced t1 by one
\* new task, and t2 and t3 left the queue with it
C7_Witness_ChainReplaced ==
    /\ lastOp.op = "replace" /\ lastOp.id = "t1" /\ lastOp.inherit
    /\ apiCalls = 1
    /\ Len(lastOp.new) = 1
    /\ queue.order = <<lastOp.new[1].id>>
    /\ emitted # <<>>

-----------------------------------------------------------------------------
(* Properties of run(), stop() and the agents *)

ActiveLoops(ls) == {r \in Runs : ls[r].pc # "idle"}

\* C8: for every interleaving of run() and stop() calls at most one control
\* loop is active: a run() call made while an earlier run() has not returned
\* is refused, and no two tasks are being executed by the loop at a time.
C8_AtMostOneControlLoop ==
    [][/\ Cardinality(ActiveLoops(loops')) <= 1
       /\ Cardinality({r \in Runs : loops'[r].pc = "executing"}) <= 1
       /\ (ActiveLoops(loops) # {} /\ lastOp'.op \in {"run", "runRefused"}) =>
              /\ lastOp'.op = "runRefused"
              /\ UNCHANGED <<queue, loops, running, watchdog, results>>]_vars

\* the agents that route() returned to the loop in the step
RoutedAgents ==
    UNION {emitted'[i].arg : i \in {j \in 1..Len(emitted') :
                                        emitted'[j].src = "loop" /\ emitted'[j].ev = "taskRouted"}}

\* C9: at most one task execution occupies an agent: an agent that is still
\* executing a task (an abandoned execution included) is never the agent that
\* route() selects and never begins a second execution before the first ended.
C9_OneExecutionPerAgent ==
    [][/\ \A a \in RoutedAgents : agentStatus[a] = "idle"
       /\ \A a \in Agents :
             (agentTask'[a] # agentTask[a] /\ agentTask'[a] # NoId) => agentStatus[a] = "idle"
       /\ \A a \in Agents :
             Cardinality({r \in Runs : loops'[r].pc = "executing" /\ loops'[r].agent = a}) <= 1]_vars

\* what C10 calls a deadlock: the queue is incomplete, nothing is ready,
\* no task is in progress and getBlocked() is not empty
DeadlockCondition(q) ==
    /\ ~isComplete(q)
    /\ getNext(q) = NoId
    /\ getInProgress(q) = {}
    /\ getBlocked(q) # {}

DeadlockError == LoopEv("loopError", NoId, {"deadlock"})

\* C10: if run() finds no ready task while the queue is incomplete, no task is
\* in progress and getBlocked() is not empty, it throws the deadlock error out
\* of run(), emitting loopError; nothing is retried, replanned or cascaded for
\* it and no task's status is changed by it.
C10_DeadlockThrownOutOfRun ==
    [][/\ (/\ lastOp'.op \in {"run", "delayDone"}
           /\ lastOp'.op = "delayDone" => running
           /\ DeadlockCondition(queue))
          => /\ queue' = queue
             /\ replanAttempts' = replanAttempts
             /\ loops'[lastOp'.r].pc = "idle"
             /\ ~running'
             /\ emitted' = (IF lastOp'.op = "run"
                            THEN <<LoopEv("loopStarted", NoId, {})>> ELSE <<>>)
                           \o <<DeadlockError>>
       /\ \A r \in Runs :
             (lastOp'.r = r /\ loops'[r].pc # "idle" /\ DeadlockCondition(queue'))
                 => loops'[r].pc \in {"replanning", "routing", "executing", "backoff"}
       /\ \A i \in 1..Len(emitted') :
             emitted'[i] = DeadlockError =>
                 /\ i = Len(emitted')
                 /\ DeadlockCondition(queue')
                 /\ loops'[lastOp'.r].pc = "idle"
                 /\ ~running']_vars

\* C10 witness: a run() call found the deadlock at once and threw it
C10_Witness_DeadlockThrown ==
    /\ lastOp.op = "run"
    /\ emitted = <<LoopEv("loopStarted", NoId, {}), DeadlockError>>
    /\ getBlocked(queue) # {}
    /\ running = FALSE

-----------------------------------------------------------------------------
(* Properties of the attempts of executeTask *)

HasEvent(evs, e) == \E i \in 1..Len(evs) : evs[i] = e

\* the failure reasons of the two errors that executeTask does not retry
NotRetried == {"no_confident_agent", "handoff_limit"}

\* the step emitted handoffCycleExceeded for id: a handoff brought the cycle
\* count of id to the limit
HandoffLimitReached(id) ==
    \E i \in 1..Len(emitted') :
        /\ emitted'[i].src = "watchdog"
        /\ emitted'[i].ev = "handoffCycleExceeded"
        /\ emitted'[i].id = id

\* C11: when routing fails with NoConfidentAgent or a handoff reaches the cycle
\* limit during an attempt, the task is failed at once with reason
\* no_confident_agent resp. handoff_limit whatever is left of the retry budget:
\* nothing is retried, routed or started for it afterwards, and recovery is
\* entered in the same step (the planner is asked when recovery is allowed).
C11_NoRetryAfterRoutingOrHandoffLimit ==
    [][\A id \in AllIds :
          /\ (lastOp'.op = "routeFailed" /\ loops[lastOp'.r].cur.id = id)
                => HasEvent(emitted', LoopEv("taskFailed", id, {"no_confident_agent"}))
          /\ (/\ lastOp'.op = "backoffDone"
              /\ loops[lastOp'.r].cur.id = id
              /\ \A a \in Agents : agentStatus[a] # "idle")
                => HasEvent(emitted', LoopEv("taskFailed", id, {"no_confident_agent"}))
          /\ HandoffLimitReached(id)
                => HasEvent(emitted', LoopEv("taskFailed", id, {"handoff_limit"}))
          /\ \A reason \in NotRetried : \A i \in 1..Len(emitted') :
                emitted'[i] = LoopEv("taskFailed", id, {reason}) =>
                    /\ QHas(queue', id)
                    /\ queue'.tasks[id].status = "failed"
                    /\ queue'.tasks[id].failureInfo.reason = reason
                    /\ \A j \in (i + 1)..Len(emitted') :
                          emitted'[j].id = id =>
                              emitted'[j].ev \notin {"taskRetrying", "taskRouted", "taskStarted"}
                    /\ \A r \in Runs : ~Attempting(loops'[r], id)
                    /\ IF config.recoveryEnabled /\ replanAttempts[id] < MaxReplanAttempts
                       THEN /\ i < Len(emitted')
                            /\ emitted'[i + 1] = LoopEv("taskReplanStarted", id, {})
                            /\ loops'[lastOp'.r].pc = "replanning"
                            /\ loops'[lastOp'.r].cur.id = id
                       ELSE /\ ~HasEvent(emitted', LoopEv("taskReplanStarted", id, {}))
                            /\ \A r \in Runs : ~WorkingOn(loops'[r], id)]_vars

\* C11 witness: a handoff reached the cycle limit in the first of two allowed
\* attempts, and the task is stored as failed with reason handoff_limit
C11_Witness_HandoffLimitWithBudgetLeft ==
    /\ lastOp.op = "response"
    /\ config.maxRetries = 2
    /\ \E id \in TaskIds :
          /\ HasEvent(emitted, Ev("watchdog", "handoffCycleExceeded", id, {MaxHandoffCycles}))
          /\ HasEvent(emitted, LoopEv("taskFailed", id, {"handoff_limit"}))
          /\ queue.tasks[id].status = "failed"
          /\ queue.tasks[id].failureInfo.reason = "handoff_limit"

\* the failure reason of the error that ended the race in the step
ErrorReasonOf(op) ==
    IF op = "agentError" THEN "execution_error"
    ELSE IF op = "timeout" THEN "timeout"
    ELSE "agent_stuck"

\* every attempt that the current executeTask call of l has finished ended in
\* the catch block with a retriable error
OnlyErrorsSoFar(l) ==
    l.caught = l.executions - (IF l.pc = "executing" THEN 1 ELSE 0)

\* C12: an attempt that ends with a thrown agent error, a task timeout or a
\* stuck agent is retried after a taskRetrying notification while attempts are
\* left; the attempt number maxRetries fails the task with the reason of that
\* error and enters recovery. A task whose attempts all ended like that was
\* executed exactly maxRetries times, with maxRetries - 1 taskRetrying
\* notifications. With recovery disabled the planner is never asked.
C12_RetriesUpToMaxRetries ==
    [][/\ lastOp'.op \in {"agentError", "timeout", "stuck"} =>
            LET r == lastOp'.r
                l == loops[r]
                id == l.cur.id
                reason == ErrorReasonOf(lastOp'.op)
            IN  IF l.attempt < config.maxRetries
                THEN /\ emitted'[Len(emitted')] = LoopEv("taskRetrying", id, {l.attempt})
                     /\ loops'[r].pc = "backoff"
                     /\ loops'[r].attempt = l.attempt
                     /\ queue'.tasks[id].status = "in_progress"
                     /\ ~HasEvent(emitted', LoopEv("taskFailed", id, {reason}))
                ELSE /\ l.attempt = config.maxRetries
                     /\ OnlyErrorsSoFar(l) =>
                            /\ l.executions = config.maxRetries
                            /\ l.retried = config.maxRetries - 1
                     /\ ~HasEvent(emitted', LoopEv("taskRetrying", id, {l.attempt}))
                     /\ EventCount(emitted', LoopEv("taskFailed", id, {reason})) = 1
                     /\ queue'.tasks[id].status = "failed"
                     /\ queue'.tasks[id].failureInfo.reason = reason
                     /\ \A r2 \in Runs : ~Attempting(loops'[r2], id)
                     /\ (config.recoveryEnabled /\ replanAttempts[id] < MaxReplanAttempts)
                            <=> (/\ loops'[r].pc = "replanning"
                                 /\ loops'[r].cur.id = id
                                 /\ HasEvent(emitted', LoopEv("taskReplanStarted", id, {})))
       /\ lastOp'.op = "backoffDone" =>
            LET r == lastOp'.r
            IN  \/ /\ loops'[r].pc = "routing"
                   /\ loops'[r].cur.id = loops[r].cur.id
                   /\ loops'[r].attempt = loops[r].attempt + 1
                   /\ loops'[r].attempt <= config.maxRetries
                \/ HasEvent(emitted', LoopEv("taskFailed", loops[r].cur.id,
                                             {"no_confident_agent"}))
       /\ \A r \in Runs :
            (loops'[r].pc = "executing" /\ OnlyErrorsSoFar(loops'[r])) =>
                /\ loops'[r].executions = loops'[r].attempt
                /\ loops'[r].retried = loops'[r].attempt - 1
       /\ ~config.recoveryEnabled =>
            /\ \A r \in Runs : loops'[r].pc # "replanning"
            /\ \A i \in 1..Len(emitted') :
                  emitted'[i].ev \notin {"taskReplanStarted", "taskReplanned",
                                         "taskReplanFailed"}]_vars

\* C12 witness: the second of two allowed attempts timed out after the first
\* had ended in an error too; the task is failed with reason timeout
C12_Witness_FailedAfterMaxRetries ==
    /\ lastOp.op = "timeout"
    /\ config.maxRetries = 2
    /\ execCount = 2
    /\ \E id \in TaskIds :
          /\ HasEvent(emitted, LoopEv("taskFailed", id, {"timeout"}))
          /\ queue.tasks[id].status = "failed"
          /\ queue.tasks[id].failureInfo.reason = "timeout"
          /\ loops[lastOp.r].pc = "replanning"
          /\ loops[lastOp.r].executions = 2
          /\ loops[lastOp.r].caught = 2
          /\ loops[lastOp.r].retried = 1

-----------------------------------------------------------------------------
(* Properties of the handoff bookkeeping *)

\* the cycle count of a history as the number of its transitions whose pair
\* already occurred earlier: its length minus its number of distinct pairs
RepeatedPairs(history) == Len(history) - Cardinality(Range(history))

\* the HandoffCycleLimitError entries of the step for the task id
ThrownHandoffErrors(id) ==
    UNION {emitted'[i].arg : i \in {j \in 1..Len(emitted') :
                                        /\ emitted'[j].src = "error"
                                        /\ emitted'[j].ev = "HandoffCycleLimitError"
                                        /\ emitted'[j].id = id}}

\* C13: a handoff response with a target that brings the task's cycle count
\* to maxHandoffCycles or above makes the loop throw HandoffCycleLimitError
\* with the whole history (the new transition included), the count and the
\* limit; the task ends failed with reason handoff_limit and the response
\* neither sets it pending nor reassigns it. A recorded handoff below the
\* limit stores the task as pending, assigned to the target role.
C13_HandoffLimitFailsTask ==
    [][lastOp'.op = "response" =>
          LET r == lastOp'.r
              l == loops[r]
              id == l.cur.id
              before == watchdog.taskHandoffs[id]
              after == watchdog'.taskHandoffs[id]
              from == AgentRole[l.agent]
          IN  /\ HandoffLimitReached(id) =>
                    /\ \E to \in Roles :
                          ThrownHandoffErrors(id) =
                              {[handoffCount |-> RepeatedPairs(Append(before, <<from, to>>)),
                                maxHandoffs |-> MaxHandoffCycles,
                                history |-> Append(before, <<from, to>>)]}
                    /\ \A e \in ThrownHandoffErrors(id) : e.handoffCount >= e.maxHandoffs
                    /\ EventCount(emitted', LoopEv("taskFailed", id, {"handoff_limit"})) = 1
                    /\ queue'.tasks[id].status = "failed"
                    /\ queue'.tasks[id].failureInfo.reason = "handoff_limit"
                    /\ queue'.tasks[id].assignedTo = l.cur.assignedTo
                    /\ WrittenStatuses(id) = <<"failed">>
                    /\ after = <<>>
              /\ ~HandoffLimitReached(id) => ThrownHandoffErrors(id) = {}
              /\ (after # before /\ after # <<>>) =>
                    \E to \in Roles :
                        /\ after = Append(before, <<from, to>>)
                        /\ RepeatedPairs(after) < MaxHandoffCycles
                        /\ WrittenStatuses(id) # <<>>
                        /\ WrittenStatuses(id)[1] = "pending"
                        /\ queue'.tasks[id].assignedTo = to
                        /\ loops'[r].pc = "routing" =>
                              /\ queue'.tasks[id].status = "pending"
                              /\ loops'[r].cur.assignedTo = to]_vars

\* C13 witness: the implementer handed the task to the reviewer role again
\* and reached the limit; the error carries every transition and the task is
\* failed, still assigned to the implementer
C13_Witness_SecondHandoffFails ==
    /\ lastOp.op = "response"
    /\ \E id \in TaskIds :
          /\ \E i \in 1..Len(emitted) :
                /\ emitted[i].src = "error"
                /\ emitted[i].ev = "HandoffCycleLimitError"
                /\ emitted[i].id = id
                /\ \E e \in emitted[i].arg :
                      /\ e.handoffCount = MaxHandoffCycles
                      /\ Len(e.history) = MaxHandoffCycles + 1
                      /\ \A k \in 1..Len(e.history) :
                            e.history[k] = <<"implementer", "reviewer">>
          /\ queue.tasks[id].status = "failed"
          /\ queue.tasks[id].failureInfo.reason = "handoff_limit"
          /\ queue.tasks[id].assignedTo = "implementer"

\* the handoffs of the example: implementer and reviewer in turns
AlternatingHandoffs ==
    <<<<"implementer", "reviewer">>, <<"reviewer", "implementer">>,
      <<"implementer", "reviewer">>, <<"reviewer", "implementer">>,
      <<"implementer", "reviewer">>>>

\* the cycle counts of the example after each of its calls
AlternatingCounts == <<0, 0, 1, 2, 3>>

\* C14: on an enabled watchdog the cycle count of a task is the number of its
\* recorded transitions whose (from, to) pair occurred earlier in its history,
\* i.e. the length of the history minus its number of distinct pairs; the
\* alternating implementer/reviewer handoffs give 0, 0, 1, 2, 3; a
\* recordHandoff call appends to the history of its task alone.
C14_CycleCountIsRepeatedPairs ==
    [][config.watchdogEnabled =>
        /\ \A id \in AllIds :
              LET history == watchdog'.taskHandoffs[id]
                  count == getHandoffCycleCount([St EXCEPT !.watchdog = watchdog'], id)
              IN  /\ count = RepeatedPairs(history)
                  /\ count = Cardinality({i \in 1..Len(history) :
                                            \E j \in 1..(i - 1) : history[j] = history[i]})
                  /\ \A k \in 1..Len(AlternatingHandoffs) :
                        history = SubSeq(AlternatingHandoffs, 1, k)
                            => count = AlternatingCounts[k]
        /\ lastOp'.op = "recordHandoff" =>
              /\ watchdog'.taskHandoffs[lastOp'.id] =
                    Append(watchdog.taskHandoffs[lastOp'.id], lastOp'.new)
              /\ \A other \in AllIds \ {lastOp'.id} :
                    watchdog'.taskHandoffs[other] = watchdog.taskHandoffs[other]]_vars

\* C14 witness: the five alternating handoffs were recorded for t1 after a
\* handoff of t2, and the count of t1 is 3
C14_Witness_AlternatingHandoffs ==
    /\ config.watchdogEnabled
    /\ lastOp.op = "recordHandoff"
    /\ watchdog.taskHandoffs["t1"] = AlternatingHandoffs
    /\ getHandoffCycleCount(St, "t1") = 3

\* the handoffCycleWarning notifications of the step for the task id
WarningsFor(id) ==
    {i \in 1..Len(emitted') :
        /\ emitted'[i].src = "watchdog"
        /\ emitted'[i].ev = "handoffCycleWarning"
        /\ emitted'[i].id = id}

\* C15: handoffCycleWarning is emitted for a task only by the recordHandoff
\* call at which its cycle count becomes floor(0.8 * maxHandoffCycles), once,
\* and by no later call on the same history.
C15_WarningOnlyOnCrossing ==
    [][lastOp'.op = "recordHandoff" =>
          LET id == lastOp'.id
              before == RepeatedPairs(watchdog.taskHandoffs[id])
              after == RepeatedPairs(watchdog'.taskHandoffs[id])
              threshold == (config.maxHandoffCycles * 8) \div 10
          IN  IF config.watchdogEnabled /\ before < threshold /\ after = threshold
              THEN Cardinality(WarningsFor(id)) = 1
              ELSE WarningsFor(id) = {}]_vars

-----------------------------------------------------------------------------
(* Properties of the activity tracking *)

\* the agentStuck notifications of the step for the pair (a, t)
StuckEvents(a, t) ==
    {i \in 1..Len(emitted') :
        /\ emitted'[i].src = "watchdog"
        /\ emitted'[i].ev = "agentStuck"
        /\ emitted'[i].id = t
        /\ \E e \in emitted'[i].arg : e[1] = a}

\* C16: a createAbortController call for a pair that already holds a
\* controller returns that controller, so that every controller returned for
\* the pair is aborted once the pair is detected as stuck.
C16_SameHandleForSameKey ==
    [][\A a \in Agents, t \in ActivityTasks :
          LET key == getAgentKey(a, t)
          IN  /\ (/\ lastOp'.op = "createAbortController"
                  /\ lastOp'.id = t
                  /\ lastOp'.new[1] = a
                  /\ wdGetAbortController(St, a, t) # NoHandle)
                    => /\ lastOp'.new[2] = wdGetAbortController(St, a, t)
                       /\ activity'.states[key].abortController =
                              wdGetAbortController(St, a, t)
              /\ StuckEvents(a, t) # {} =>
                    activity.obtained[key] \subseteq activity'.aborted]_vars

\* the pair of the state st was silent for longer than the timeout that
\* applies to it, computed from the fields of the state
SilentTooLong(st) ==
    clock - st.lastActivity >
        (IF config.gracePeriodsEnabled /\ st.inLlmRequest
         THEN config.llmRequestGracePeriodMs ELSE config.activityTimeoutMs)

\* C17: a tick emits one agentStuck for every tracked pair that was silent for
\* longer than its effective timeout, aborts the controller of such a pair and
\* drops the pair; it emits nothing for any other pair (an untracked one
\* included), leaves its state as it is and aborts no other controller.
\* agentStuck is emitted by ticks only. clearAgent drops its pair, aborts
\* nothing and emits nothing.
C17_TickReportsStuckPairsOnce ==
    [][/\ lastOp'.op = "checkForStuckAgents" =>
            /\ \A a \in Agents, t \in ActivityTasks :
                  LET key == getAgentKey(a, t)
                      st == activity.states[key]
                  IN  IF st # NoState /\ SilentTooLong(st)
                      THEN /\ Cardinality(StuckEvents(a, t)) = 1
                           /\ Ev("watchdog", "agentStuck", t,
                                 {<<a, clock - st.lastActivity>>}) \in Range(emitted')
                           /\ st.abortController # NoHandle =>
                                  st.abortController \in activity'.aborted
                           /\ activity'.states[key] = NoState
                           /\ <<a, t>> \notin watchdog'.agentStates
                      ELSE /\ StuckEvents(a, t) = {}
                           /\ activity'.states[key] = st
                           /\ (st # NoState /\ st.abortController # NoHandle) =>
                                  (st.abortController \in activity'.aborted
                                      <=> st.abortController \in activity.aborted)
            /\ activity'.aborted \ activity.aborted \subseteq
                  {activity.states[k].abortController :
                      k \in {k2 \in ActivityKeys : activity.states[k2] # NoState}}
       /\ lastOp'.op # "checkForStuckAgents" =>
            /\ \A a \in Agents, t \in ActivityTasks : StuckEvents(a, t) = {}
            /\ activity'.aborted = activity.aborted
       /\ lastOp'.op = "clearAgent" =>
            /\ activity'.states[getAgentKey(lastOp'.new[1], lastOp'.id)] = NoState
            /\ \A k \in ActivityKeys \ {getAgentKey(lastOp'.new[1], lastOp'.id)} :
                  activity'.states[k] = activity.states[k]
            /\ emitted' = <<>>]_vars

\* C17 witness: a tick found one pair stuck and aborted its controller while
\* the other tracked pair, still within its timeout, stayed tracked
C17_Witness_OneOfTwoStuck ==
    /\ lastOp.op = "checkForStuckAgents"
    /\ Len(emitted) = 1
    /\ emitted[1].ev = "agentStuck"
    /\ activity.aborted # {}
    /\ \E k \in ActivityKeys : activity.states[k] # NoState

\* a request-start activity recorded for the key, since its state was
\* created, has not been followed by a response-received activity
RequestPending(key) ==
    LET log == activity.log[key]
    IN  \E i \in 1..Len(log) :
            /\ log[i] = "llm_request_start"
            /\ \A j \in (i + 1)..Len(log) : log[j] # "llm_response_received"

\* C18: with grace periods enabled a tick reports a tracked pair with a
\* pending request-start as stuck exactly when more than
\* llmRequestGracePeriodMs passed since its last activity; a tracked pair
\* without one (after response-received, or with grace periods disabled) is
\* reported exactly when more than activityTimeoutMs passed.
C18_GracePeriodDuringLlmRequest ==
    [][lastOp'.op = "checkForStuckAgents" =>
          \A a \in Agents, t \in ActivityTasks :
              LET key == getAgentKey(a, t)
                  st == activity.states[key]
                  elapsed == clock - st.lastActivity
              IN  st # NoState =>
                      IF config.gracePeriodsEnabled /\ RequestPending(key)
                      THEN StuckEvents(a, t) # {} <=> elapsed > config.llmRequestGracePeriodMs
                      ELSE StuckEvents(a, t) # {} <=> elapsed > config.activityTimeoutMs]_vars

\* C18 witness: a tick left alone a pair with a pending request that had been
\* silent for longer than activityTimeoutMs but not longer than the grace period
C18_Witness_SparedByGracePeriod ==
    /\ lastOp.op = "checkForStuckAgents"
    /\ config.gracePeriodsEnabled
    /\ emitted = <<>>
    /\ \E k \in ActivityKeys :
          /\ activity.states[k] # NoState
          /\ RequestPending(k)
          /\ clock - activity.states[k].lastActivity > config.activityTimeoutMs
          /\ clock - activity.states[k].lastActivity <= config.llmRequestGracePeriodMs

\* the agents a route() call assessed at least once
CallsOn(o, a) == Cardinality({i \in 1..Len(o.calls) : o.calls[i].agentId = a})

AssessedBy(o) == {a \in RouterAgents : CallsOn(o, a) > 0}

\* the confidences that the assessments of the step that ended a route() call
\* stand for: the one given, and 0 for an assessment that threw
GivenConfidences(given) ==
    [a \in DOMAIN given |-> IF given[a].threw THEN 0 ELSE given[a].confidence]

\* the list names each agent of the set once, with the confidence sc gave it
ListsExactly(list, agents, sc) ==
    /\ Len(list) = Cardinality(agents)
    /\ {list[i].agentId : i \in 1..Len(list)} = agents
    /\ \A i \in 1..Len(list) : list[i].confidence = sc[list[i].agentId]

Descending(list) ==
    \A i, j \in 1..Len(list) : i < j => list[i].confidence >= list[j].confidence

\* C19: when one of the agents that route() assessed (all of them idle and of
\* no excluded role when the call collected them) has a confidence at or above
\* the threshold, the call returns an assessed agent that no assessed agent
\* outscores, with that confidence as its score; the alternatives are the
\* other assessed agents, in descending order of confidence; and no agent was
\* assessed twice, so no recovery took place.
C19_BestAssessedAgentIsReturned ==
    [][lastOp'.op = "routeReturns" =>
        LET sc == GivenConfidences(lastOp'.new[1])
            o == routing'.outcome
            assessed == AssessedBy(o)
        IN  /\ assessed \subseteq Range(routing.agents)
            /\ (\E a \in assessed : sc[a] >= config.confidenceThreshold) =>
                  /\ o.ok
                  /\ o.agent \in assessed
                  /\ o.score = sc[o.agent]
                  /\ \A a \in assessed : sc[a] <= o.score
                  /\ ListsExactly(o.alternatives, assessed \ {o.agent}, sc)
                  /\ Descending(o.alternatives)
                  /\ ~o.recovery.attempted
                  /\ \A a \in RouterAgents : CallsOn(o, a) <= 1]_vars

\* three agents were assessed, the one collected last scored highest and was
\* returned, and the two alternatives had to change places
C19_Witness_LastCandidateWins ==
    /\ lastOp.op = "routeReturns"
    /\ routing.agents = RegistryOrder
    /\ routing.outcome.ok /\ ~routing.outcome.recovery.attempted
    /\ routing.outcome.agent = "a3"
    /\ Len(routing.outcome.alternatives) = 2
    /\ routing.outcome.alternatives[1].agentId = "a2"
    /\ routing.outcome.alternatives[1].confidence
          > routing.outcome.alternatives[2].confidence

\* the outcome is a NoConfidentAgent error for the task, with the confidences
\* sc of the agents given and the configured threshold
ThrewNoConfidentAgent(o, taskId, agents, sc) ==
    /\ ~o.ok
    /\ o.agent = NoAgent
    /\ o.error.name = "NoConfidentAgentError"
    /\ o.error.taskId = taskId
    /\ o.error.threshold = config.confidenceThreshold
    /\ ListsExactly(o.error.assessments, agents, sc)

\* C20: a route() call collects exactly the agents that are idle and of no
\* excluded role at that moment, and throws NoConfidentAgent with the task id,
\* no assessment and the threshold when there is none. When the assessments
\* are back it either returns one of the collected agents with a score (the
\* agent's confidence, or that of its recovery re-assessment) at or above the
\* threshold, or throws NoConfidentAgent with the task id, the confidence of
\* every agent it assessed and the threshold. No other step changes the
\* collected agents.
C20_ConfidentAgentOrNoConfidentAgent ==
    [][/\ lastOp'.op = "route" =>
            LET eligible == {a \in RouterAgents :
                                /\ agentStatus[a] = "idle"
                                /\ AgentRole[a] \notin lastOp'.new}
            IN  /\ Range(routing'.agents) = eligible
                /\ Len(routing'.agents) = Cardinality(eligible)
                /\ routing'.taskId = lastOp'.id
                /\ IF eligible = {}
                   THEN /\ routing'.pc = "idle"
                        /\ ThrewNoConfidentAgent(routing'.outcome, lastOp'.id, {},
                                                 [a \in RouterAgents |-> 0])
                   ELSE routing'.pc = "assessing"
       /\ lastOp'.op # "route" =>
            /\ routing'.agents = routing.agents
            /\ routing'.taskId = routing.taskId
       /\ lastOp'.op = "routeReturns" =>
            LET sc == GivenConfidences(lastOp'.new[1])
                enh == lastOp'.new[2].confidence
                o == routing'.outcome
            IN  \/ /\ o.ok
                   /\ o.error = NoError
                   /\ o.agent \in Range(routing.agents)
                   /\ o.score = IF o.recovery.attempted THEN enh ELSE sc[o.agent]
                   /\ o.score >= config.confidenceThreshold
                \/ ThrewNoConfidentAgent(o, routing.taskId, AssessedBy(o), sc)]_vars

\* a call that assessed two agents, re-assessed one of them and threw
C20_Witness_ThrownAfterRecovery ==
    /\ lastOp.op = "routeReturns"
    /\ ~routing.outcome.ok
    /\ Len(routing.outcome.error.assessments) = 2
    /\ \E a \in RouterAgents : CallsOn(routing.outcome, a) = 2

\* the assessTask calls of the outcome are one call with the given context on
\* each agent of the set and, when again is an agent, a last call on it with
\* the enhanced context
CallsAre(o, agents, again) ==
    /\ \A a \in RouterAgents :
          CallsOn(o, a) = (IF a \in agents THEN 1 ELSE 0) + (IF a = again THEN 1 ELSE 0)
    /\ \A i \in 1..Len(o.calls) :
          o.calls[i].context =
              IF i = Len(o.calls) /\ again # NoAgent THEN "enhanced" ELSE "given"
    /\ again # NoAgent => o.calls[Len(o.calls)].agentId = again

\* C21: when the assessments of a route() call are back, none of them meets
\* the threshold, recovery is enabled and an assessed agent is idle at that
\* moment, the call re-assesses exactly one agent, once, with the enhanced
\* context: an idle assessed agent that no idle assessed agent undercuts; every
\* other assessed agent has one assessTask call. If the re-assessment gives a
\* confidence at or above the threshold, that agent is returned with
\* recoveryAttempt {attempted, success, originalScore, enhancedScore} and the
\* enhanced confidence as score; if not (or if it throws) the call throws
\* NoConfidentAgent. With no assessed agent idle there is no re-assessment and
\* the call throws NoConfidentAgent.
C21_OneRecoveryOfLowestIdleAgent ==
    [][lastOp'.op = "routeReturns" =>
        LET sc == GivenConfidences(lastOp'.new[1])
            enhanced == lastOp'.new[2]
            o == routing'.outcome
            assessed == AssessedBy(o)
            idle == {a \in assessed : agentStatus[a] = "idle"}
        IN  (/\ config.routerRecovery
             /\ \A a \in assessed : sc[a] < config.confidenceThreshold) =>
              IF idle = {}
              THEN /\ CallsAre(o, assessed, NoAgent)
                   /\ ThrewNoConfidentAgent(o, routing.taskId, assessed, sc)
              ELSE \E c \in idle :
                     /\ \A a \in idle : sc[c] <= sc[a]
                     /\ CallsAre(o, assessed, c)
                     /\ IF ~enhanced.threw
                           /\ enhanced.confidence >= config.confidenceThreshold
                        THEN /\ o.ok /\ o.agent = c
                             /\ o.score = enhanced.confidence
                             /\ o.recovery =
                                  [attempted |-> TRUE, success |-> TRUE, agent |-> c,
                                   originalScore |-> sc[c],
                                   enhancedScore |-> enhanced.confidence]
                        ELSE ThrewNoConfidentAgent(o, routing.taskId, assessed, sc)]_vars

\* a recovery returned the agent that had scored lowest of three
C21_Witness_LowestAgentRecovered ==
    /\ lastOp.op = "routeReturns"
    /\ routing.outcome.ok
    /\ routing.outcome.recovery.success
    /\ Len(routing.outcome.calls) = 4
    /\ \A i \in 1..2 :
          routing.outcome.alternatives[i].confidence
              > routing.outcome.recovery.originalScore

\* the candidates that the assessment reaches: all of them in parallel mode,
\* in sequential mode those with no assessment of 0.9 or more before them
Reached(agents, given) ==
    {agents[i] : i \in {k \in 1..Len(agents) :
        \/ config.parallelAssessment
        \/ \A j \in 1..(k - 1) : \/ given[agents[j]].threw
                                  \/ given[agents[j]].confidence < HighConfidence}}

\* every agent of the list that is in the set has the confidence 0 there
ListedWithZero(list, agents) ==
    \A i \in 1..Len(list) : list[i].agentId \in agents => list[i].confidence = 0

\* C22: a route() call in which assessTask calls throw still ends with a
\* decision or with NoConfidentAgent. An initial assessment that throws does not
\* stop the assessment: every candidate that the assessment mode reaches is
\* assessed, the agents whose assessment threw are reported with confidence 0
\* among the alternatives and in the error, and when an assessed agent that did
\* not throw meets the threshold, an agent with the highest confidence is
\* returned without recovery. A recovery re-assessment that throws makes the
\* call throw NoConfidentAgent.
C22_ThrownAssessmentIsConfidenceZero ==
    [][lastOp'.op = "routeReturns" =>
        LET given == lastOp'.new[1]
            enhanced == lastOp'.new[2]
            o == routing'.outcome
            assessed == AssessedBy(o)
            threw == {a \in assessed : given[a].threw}
            scored == assessed \ threw
        IN  /\ o.error = NoError \/ o.error.name = "NoConfidentAgentError"
            /\ o.ok <=> o.error = NoError
            /\ assessed = Reached(routing.agents, given)
            /\ ListedWithZero(o.alternatives, threw)
            /\ ~o.ok => ListedWithZero(o.error.assessments, threw)
            /\ ~o.ok => \A a \in assessed :
                  \E i \in 1..Len(o.error.assessments) :
                      o.error.assessments[i].agentId = a
            /\ (\E a \in scored : given[a].confidence >= config.confidenceThreshold) =>
                  /\ o.ok /\ ~o.recovery.attempted
                  /\ o.agent \in scored
                  /\ o.score = given[o.agent].confidence
                  /\ \A a \in scored : given[a].confidence <= o.score
                  /\ \A a \in assessed \ {o.agent} :
                        \E i \in 1..Len(o.alternatives) :
                            o.alternatives[i].agentId = a
            /\ (/\ enhanced.threw
                /\ \A a \in scored : given[a].confidence < config.confidenceThreshold
                /\ config.confidenceThreshold > 0) => ~o.ok]_vars

\* in sequential mode the first two candidates threw and the third was returned
C22_Witness_ReturnedAfterTwoThrows ==
    /\ lastOp.op = "routeReturns"
    /\ ~config.parallelAssessment
    /\ routing.agents = RegistryOrder
    /\ lastOp.new[1]["a1"].threw /\ lastOp.new[1]["a2"].threw
    /\ routing.outcome.ok
    /\ routing.outcome.agent = "a3"
    /\ Len(routing.outcome.alternatives) = 2

\* the step called refineTask for the task: taskReplanStarted is emitted right
\* before the call
ReplanStarted(evs, id) == HasEvent(evs, LoopEv("taskReplanStarted", id, {}))

ReplanStarts(evs, id) ==
    Cardinality({i \in 1..Len(evs) : evs[i] = LoopEv("taskReplanStarted", id, {})})

\* C23: a step calls refineTask for a task only with recovery enabled, a
\* TaskPlanner configured and the task's replan-attempt counter below
\* maxReplanAttempts, and it has added one to the counter by the time the call
\* is pending; the counter changes in no other way and never exceeds
\* maxReplanAttempts, so refineTask is called at most maxReplanAttempts times
\* for one task id.
C23_ReplanOnlyWithinBudget ==
    [][\A id \in AllIds :
        /\ ReplanStarts(emitted', id) <= 1
        /\ ReplanStarted(emitted', id) =>
              /\ config.recoveryEnabled
              /\ config.hasPlanner
              /\ replanAttempts[id] < MaxReplanAttempts
              /\ replanAttempts'[id] = replanAttempts[id] + 1
              /\ \E r \in Runs : /\ loops'[r].pc = "replanning"
                                  /\ loops'[r].cur.id = id
        /\ ~ReplanStarted(emitted', id) => replanAttempts'[id] = replanAttempts[id]
        /\ replanAttempts'[id] <= MaxReplanAttempts]_vars

\* a task failed with its replan budget used up: no refineTask call
C23_Witness_BudgetUsedUp ==
    \E id \in AllIds :
        /\ config.recoveryEnabled /\ config.hasPlanner
        /\ replanAttempts[id] = MaxReplanAttempts
        /\ \E i \in 1..Len(emitted) :
              emitted[i].src = "loop" /\ emitted[i].ev = "taskFailed" /\ emitted[i].id = id
        /\ ~ReplanStarted(emitted, id)

\* the step ended a successful replan of the task: the loop emitted taskReplanned
Replanned(evs, id) ==
    \E i \in 1..Len(evs) :
        evs[i].src = "loop" /\ evs[i].ev = "taskReplanned" /\ evs[i].id = id

\* C24: after the step that replanned a failed task successfully, the task is
\* stored in the queue with failureInfo.replanAttempted = true.
C24_ReplanAttemptedIsPatched ==
    [][\A id \in AllIds :
        Replanned(emitted', id) =>
            /\ QHas(queue', id)
            /\ queue'.tasks[id].failureInfo.replanAttempted]_vars

IsLoopEv(e, ev, id) == e.src = "loop" /\ e.ev = ev /\ e.id = id

\* the step made the task id fail terminally: it is stored as failed now, not
\* by a cascade, was not failed before, and no loop goes on attempting it
TerminalFailure(id) ==
    /\ QHas(queue', id)
    /\ queue'.tasks[id].status = "failed"
    /\ ~(QHas(queue, id) /\ StatusOf(id) = "failed")
    /\ queue'.tasks[id].failureInfo.reason # "dependency_failed"
    /\ \A r \in Runs : ~Attempting(loops'[r], id)

\* the order of the failure notifications that the loop emits in one step:
\* taskReplanStarted comes right after the taskFailed of its task and ends the
\* step; taskReplanned or taskReplanFailed is the first notification of the
\* step in which refineTask settled for that task, taskReplanned exactly when
\* the planner delivered tasks; taskCascadeFailed needs cascadeOnReplanFailure
\* and follows, in one block, the taskFailed of the failed task (no replan was
\* attempted) or its taskReplanFailed; no step emits taskReplanned and
\* taskCascadeFailed for one failed task
NotificationsInOrder ==
    LET evs == SelectSeq(emitted', LAMBDA e : e.src = "loop")
    IN  /\ \A i \in 1..Len(evs) :
              /\ (evs[i].src = "loop" /\ evs[i].ev = "taskReplanStarted") =>
                    /\ i > 1
                    /\ IsLoopEv(evs[i - 1], "taskFailed", evs[i].id)
                    /\ i = Len(evs)
              /\ (evs[i].src = "loop"
                    /\ evs[i].ev \in {"taskReplanned", "taskReplanFailed"}) =>
                    /\ i = 1
                    /\ lastOp'.op = "planner"
                    /\ loops[lastOp'.r].pc = "replanning"
                    /\ loops[lastOp'.r].cur.id = evs[i].id
                    /\ (evs[i].ev = "taskReplanned") <=> (usedNew' # usedNew)
              /\ (evs[i].src = "loop" /\ evs[i].ev = "taskCascadeFailed") =>
                    /\ config.cascadeOnReplanFailure
                    /\ i > 1
                    /\ \E f \in evs[i].arg :
                          \/ IsLoopEv(evs[i - 1], "taskFailed", f)
                          \/ IsLoopEv(evs[i - 1], "taskReplanFailed", f)
                          \/ /\ evs[i - 1].src = "loop"
                             /\ evs[i - 1].ev = "taskCascadeFailed"
                             /\ evs[i - 1].arg = evs[i].arg
                    /\ \A j \in 1..Len(evs), f \in evs[i].arg :
                          ~IsLoopEv(evs[j], "taskReplanned", f)
        /\ lastOp'.op = "planner" =>
              /\ Len(evs) >= 1
              /\ \/ IsLoopEv(evs[1], "taskReplanned", loops[lastOp'.r].cur.id)
                 \/ IsLoopEv(evs[1], "taskReplanFailed", loops[lastOp'.r].cur.id)

\* C25: every terminal failure of a task is notified by taskFailed in the step
\* that makes the task fail, and the failure notifications follow in order:
\* taskFailed; with a replan, taskReplanStarted and then exactly one of
\* taskReplanned and taskReplanFailed (the latter when the planner threw or
\* returned no task); taskCascadeFailed only after a recovery that did not
\* succeed and only with cascadeOnReplanFailure, never together with
\* taskReplanned for the same failure.
C25_FailureNotificationsInOrder ==
    [][/\ \A id \in AllIds :
            TerminalFailure(id) =>
                \E i \in 1..Len(emitted') : IsLoopEv(emitted'[i], "taskFailed", id)
       /\ NotificationsInOrder]_vars

\* the order alone, for the notifications that are emitted
FailureNotificationsKeepOrder == [][NotificationsInOrder]_vars

\* the status that the first queue.update of the step stored for the task
FirstStatusWritten(evs, id) ==
    LET ups == {i \in 1..Len(evs) :
                  evs[i].src = "queue" /\ evs[i].ev = "taskUpdated" /\ evs[i].id = id}
        first == CHOOSE i \in ups : \A j \in ups : i <= j
    IN  IF ups = {} THEN {} ELSE evs[first].arg

\* the status that the response stands for when no case of the switch decides
StatusBySuccess(resp, a) ==
    IF ~resp.success THEN "failed"
    ELSE IF config.reviewRequired /\ AgentRole[a] # "reviewer" THEN "reviewing"
    ELSE "completed"

\* C26: when the agent's response has no next action or one of a type that
\* handleResponse has no case for, the status that handleResponse stores for
\* the task is given by response.success: reviewing (review required and the
\* agent is no reviewer) or else completed when it is true, failed when it is
\* false.
C26_StatusFollowsSuccess ==
    [][(/\ lastOp'.op = "respondsWith"
        /\ lastOp'.new[1].next \in {"none", "other"}
        /\ QHas(queue, loops[lastOp'.r].cur.id)) =>
          FirstStatusWritten(emitted', loops[lastOp'.r].cur.id)
              = {StatusBySuccess(lastOp'.new[1], loops[lastOp'.r].agent)}]_vars

\* the same for a response with no next action at all
StatusFollowsSuccessWithoutNextAction ==
    [][(/\ lastOp'.op = "respondsWith"
        /\ lastOp'.new[1].next = "none"
        /\ QHas(queue, loops[lastOp'.r].cur.id)) =>
          FirstStatusWritten(emitted', loops[lastOp'.r].cur.id)
              = {StatusBySuccess(lastOp'.new[1], loops[lastOp'.r].agent)}]_vars

\* the steps that settle the race of executeWithTimeout
AttemptOutcomes == {"response", "agentError", "timeout", "stuck"}

\* one step, seen from the race of the loop r
RaceSettlesOnce(r) ==
    /\ (lastOp'.op \in AttemptOutcomes /\ lastOp'.r = r) =>
          /\ loops[r].pc = "executing"
          /\ loops'[r].pc # "executing"
          /\ (lastOp'.op = "stuck") <=> loops[r].aborted
    /\ (loops[r].pc = "executing" /\ loops'[r].pc # "executing") =>
          lastOp'.op \in AttemptOutcomes /\ lastOp'.r = r
    /\ (loops[r].pc = "executing" /\ loops'[r].pc = "executing") =>
          /\ loops'[r].cur = loops[r].cur
          /\ loops'[r].agent = loops[r].agent
          /\ loops'[r].attempt = loops[r].attempt
          /\ (loops'[r].aborted /\ ~loops[r].aborted) =>
                /\ lastOp'.op = "tick"
                /\ HasEvent(emitted', Ev("watchdog", "agentStuck", loops[r].cur.id,
                                         {loops[r].agent}))
          /\ loops[r].aborted => loops'[r].aborted

\* the execution that a race left behind ends: nothing of the tasks changes
LateOutcomeChangesNothing ==
    lastOp'.op = "agentFinish" =>
        /\ queue' = queue
        /\ results' = results
        /\ loops' = loops
        /\ replanAttempts' = replanAttempts

\* C27: the race of an attempt is settled by exactly one step: the agent's
\* response or error, the deadline, or the abort of the (agent, task) handle
\* that a watchdog tick caused, and the abort wins once the handle is aborted;
\* until then the attempt stays as it is. The end of an execution that the
\* race left behind changes no task, no attempt and no result. Every pending
\* race is settled at last, whatever the agent does.
C27_AttemptEndsOnce ==
    /\ [][/\ \A r \in Runs : RaceSettlesOnce(r)
          /\ LateOutcomeChangesNothing]_vars
    /\ \A r \in Runs : (loops[r].pc = "executing") ~> (loops[r].pc # "executing")

\* an execution ended after the deadline had settled its race
C27_Witness_LateEndOfExecution ==
    /\ lastOp.op = "agentFinish"
    /\ \E id \in TaskIds :
          /\ QHas(queue, id)
          /\ queue.tasks[id].failureInfo.reason = "timeout"

-----------------------------------------------------------------------------
(* The router as the execution loop reads it *)

\* routeDecision is the decision route() makes: for every route() call that
\* had candidates, it tells whether the call returned, which agent it returned
\* and whether the agent came from the recovery
RouteDecisionIsTheDecisionOfRoute ==
    (lastOp.op = "routeReturns" /\ routing.agents # <<>>) =>
        LET sc == [a \in RouterAgents |-> caughtConfidence(lastOp.new[1][a])]
            enh == caughtConfidence(lastOp.new[2])
            d == routeDecision(St, routing.agents, sc, enh)
            o == routing.outcome
        IN  /\ d.ok = o.ok
            /\ d.agent = o.agent
            /\ d.recovery = o.recovery.attempted

-----------------------------------------------------------------------------
(* Properties of the exits of run() *)

\* the events that run() emits on its way out: loopCompleted before it returns
\* (the queue is complete, or stop() cleared the flag), loopError in its catch
\* block (the deadlock error or any other error)
RunExitEvents == {"loopCompleted", "loopError"}

RunExits(evs) ==
    \E i \in 1..Len(evs) : evs[i].src = "loop" /\ evs[i].ev \in RunExitEvents

\* the watchdog after stop(): not running, which is also "no interval timer"
\* (start() sets the two together and stop() clears the two together), no
\* agent activity entry and no handoff history
WatchdogStopped(w) ==
    /\ ~w.running
    /\ w.agentStates = {}
    /\ \A id \in AllIds : w.taskHandoffs[id] = <<>>

\* C28: on every exit path of run() (normal completion, stop(), the deadlock
\* error, any other thrown error) the watchdog is stopped (not running, timer
\* cancelled, activity and handoff maps empty), the loop's running flag is false
\* and the per-task agent map is empty.
C28_RunExitsCleanedUp ==
    [][RunExits(emitted')
          => /\ WatchdogStopped(watchdog')
             /\ ~running'
             /\ \A id \in AllIds : agentByTask'[id] = NoAgent
             /\ loops'[lastOp'.r].pc = "idle"]_vars

\* run() was left, some awaits after it started the watchdog, by an error
\* other than the deadlock error
C28_Witness_ErrorExitCleanedUp ==
    /\ config.watchdogEnabled
    /\ lastOp.op # "run"
    /\ HasEvent(emitted, LoopEv("loopError", NoId, {"not_found"}))
    /\ WatchdogStopped(watchdog)
    /\ ~running
    /\ agentByTask = NoAgentByTask

-----------------------------------------------------------------------------
(* Properties of the queue's methods *)

\* C29: update(task) with an id that is not in the queue throws, leaves the
\* stored tasks and the three id indices unchanged and emits no notification;
\* every other queue operation (add, get, getNext, getReady, getBlocked, remove,
\* replaceWithRefinedTasks, cascadeFailure, getStats) completes without throwing
\* in every queue state.
C29_OnlyUpdateOfUnknownIdThrows ==
    [][lastOp'.op \in QueueMethods
          => /\ (lastOp'.op = "update" /\ ~QHas(queue, lastOp'.id))
                   => /\ lastOp'.threw
                      /\ queue' = queue
                      /\ emitted' = <<>>
             /\ lastOp'.op # "update" => ~lastOp'.threw]_vars

\* update() was called with a task that remove() had just taken out of the queue
C29_Witness_UpdateOfRemovedTaskThrew ==
    /\ lastOp.op = "update"
    /\ lastOp.id \in TaskIds
    /\ lastOp.threw
    /\ ~QHas(queue, lastOp.id)
    /\ queue.order # <<>>

\* critical > high > medium > low
PriorityRank(priority) ==
    CASE priority = "critical" -> 4
      [] priority = "high" -> 3
      [] priority = "medium" -> 2
      [] priority = "low" -> 1

\* C30: getNext() returns a ready task whose priority is maximal among all
\* ready tasks (critical > high > medium > low) and, among those of maximal
\* priority, one with the earliest creation time; it returns nothing exactly
\* when getReady() is empty.
C30_GetNextIsBestReadyTask ==
    [][lastOp'.op = "getNext"
          => LET ready == Range(getReady(queue))
                 returned == lastOp'.new
             IN  /\ (returned = <<>>) <=> (ready = {})
                 /\ returned # <<>> =>
                       LET next == queue.tasks[returned[1]]
                       IN  /\ returned[1] \in ready
                           /\ \A id \in ready :
                                 PriorityRank(queue.tasks[id].priority)
                                     <= PriorityRank(next.priority)
                           /\ \A id \in ready :
                                 queue.tasks[id].priority = next.priority
                                     => next.createdAt <= queue.tasks[id].createdAt]_vars

\* getNext() passed over a ready task of the same priority that was inserted
\* earlier and created later, and over a ready task of lower priority
C30_Witness_EarlierCreationWins ==
    /\ lastOp.op = "getNext"
    /\ lastOp.new # <<>>
    /\ \E first, lesser \in Range(getReady(queue)) :
          LET next == queue.tasks[lastOp.new[1]]
          IN  /\ queue.tasks[first].priority = next.priority
              /\ queue.tasks[first].createdAt > next.createdAt
              /\ first = queue.order[1]
              /\ PriorityRank(queue.tasks[lesser].priority) < PriorityRank(next.priority)

-----------------------------------------------------------------------------
(* Properties of the attempts that follow a response *)

\* the response made handleResponse store the task as pending
StoredAsPending(r) ==
    /\ lastOp'.op = "respondsWith"
    /\ lastOp'.r = r
    /\ lastOp'.new[1].next \in {"handoff", "retry"}
    /\ FirstStatusWritten(emitted', loops[r].cur.id) = {"pending"}

\* the loop r went on to another attempt of the task it was executing
NextAttemptBegun(r) ==
    /\ loops'[r].pc = "routing"
    /\ loops'[r].cur.id = loops[r].cur.id

\* C31: when a response is interpreted as status pending (handoff or retry
\* next-action), the retry budget is reset: the following attempt of that task
\* is counted as attempt 1, so errors that occurred before a reroute are not
\* charged against maxRetries after it.
C31_RerouteResetsRetryBudget ==
    [][\A r \in Runs :
          /\ (StoredAsPending(r) /\ NextAttemptBegun(r)) => loops'[r].attempt = 1
          /\ (/\ lastOp'.op \in {"agentError", "timeout", "stuck"}
              /\ lastOp'.r = r
              /\ loops[r].pc = "executing"
              /\ loops[r].attempt < config.maxRetries
              /\ QHas(queue, loops[r].cur.id))
                => /\ loops'[r].pc = "backoff"
                   /\ HasEvent(emitted', LoopEv("taskRetrying", loops[r].cur.id,
                                                {loops[r].attempt}))]_vars

\* a reroute after an error of the same executeTask call: the attempt that
\* follows is attempt 1 again
C31_Witness_RerouteAfterError ==
    \E r \in Runs :
        /\ lastOp.op = "respondsWith"
        /\ lastOp.r = r
        /\ lastOp.new[1].next \in {"handoff", "retry"}
        /\ loops[r].pc = "routing"
        /\ loops[r].caught >= 1
        /\ loops[r].attempt = 1
        /\ config.maxRetries > 1

-----------------------------------------------------------------------------
(* Properties of the attempts log of a task *)

\* the steps that settle the race of an execution, or start and end one at once
ExecutionOutcomes == {"respondsWith", "response", "agentError", "timeout", "stuck", "routed"}

\* the step started an execution of the task id
ExecutionStarted(id) ==
    /\ lastOp'.op = "routed"
    /\ loops[lastOp'.r].cur.id = id

\* C33: the attempts log of a stored task only grows: a step appends exactly
\* one record when it starts an execution of the task and none otherwise, no
\* record is removed, a completed record is never modified again (not by a
\* routing failure and not by a later attempt), and an open record is
\* completed only by the outcome of its own execution.
C33_AttemptsLogOnlyGrows ==
    [][\A id \in AllIds :
          (QHas(queue, id) /\ QHas(queue', id))
              => LET before == queue.tasks[id].attempts
                     after == queue'.tasks[id].attempts
                 IN  /\ Len(after) = Len(before) + (IF ExecutionStarted(id) THEN 1 ELSE 0)
                     /\ \A i \in 1..Len(before) :
                           /\ before[i].completed => after[i] = before[i]
                           /\ after[i] # before[i]
                                 => /\ i = Len(before)
                                    /\ after[i].completed
                                    /\ lastOp'.op \in ExecutionOutcomes]_vars

\* the length of the log: one record more for each started execution, and the
\* agent of a record never changes
AttemptsLogGrowsByStartedExecutions ==
    [][\A id \in AllIds :
          (QHas(queue, id) /\ QHas(queue', id))
              => LET before == queue.tasks[id].attempts
                     after == queue'.tasks[id].attempts
                 IN  /\ Len(after) = Len(before) + (IF ExecutionStarted(id) THEN 1 ELSE 0)
                     /\ \A i \in 1..Len(before) : after[i].agentId = before[i].agentId]_vars

-----------------------------------------------------------------------------
(* Properties of the results of run() *)

\* the run() call r returns its results in this step
RunReturns(r) ==
    /\ lastOp'.r = r
    /\ HasEvent(emitted', LoopEv("loopCompleted", NoId, {}))

\* the loop r stores the task it is executing as completed in this step
CompletesTask(r) ==
    /\ lastOp'.r = r
    /\ HasEvent(emitted', LoopEv("taskCompleted", loops[r].cur.id, {}))

\* C32: when run() returns, the results list has exactly one entry for every
\* task that this run() call stored as completed and no other entry; and a
\* task that is completed by its first attempt has had no taskRetrying
\* notification.
C32_ResultsAreTheCompletedTasks ==
    [][\A r \in Runs :
          /\ RunReturns(r)
                => /\ results' = loops'[r].completedTasks
                   /\ Cardinality(Range(results')) = Len(results')
          /\ (/\ CompletesTask(r)
              /\ Len(loops[r].cur.attempts) = 1)
                => /\ loops[r].retried = 0
                   /\ \A i \in 1..Len(emitted') :
                         emitted'[i].id = loops[r].cur.id
                             => emitted'[i].ev # "taskRetrying"]_vars

-----------------------------------------------------------------------------
(* Properties of the handoff tracking of the watchdog *)

\* what getHandoffHistory and getHandoffCycleCount return for id: nothing
NoHandoffTracked(w, id) ==
    /\ w.taskHandoffs[id] = <<>>
    /\ countHandoffCycles(w.taskHandoffs[id]) = 0

\* C34: the handoff history and the cycle count that the watchdog keeps for a
\* task are cleared when the loop stores the task as completed and when the
\* watchdog stops: after either, getHandoffHistory returns no record and
\* getHandoffCycleCount returns 0 for the task.
C34_HandoffTrackingCleared ==
    [][/\ \A id \in AllIds :
             HasEvent(emitted', LoopEv("taskCompleted", id, {}))
                 => NoHandoffTracked(watchdog', id)
       /\ RunExits(emitted') => \A id \in AllIds : NoHandoffTracked(watchdog', id)]_vars

\* the part of it that is about the stop of the watchdog
HandoffTrackingClearedByStop ==
    [][RunExits(emitted') => \A id \in AllIds : NoHandoffTracked(watchdog', id)]_vars

-----------------------------------------------------------------------------
(* Properties of the progress of run() *)

\* C35: run() does not wait for ever with no work in flight: whenever it is
\* in its delay with no task in progress (the queue is incomplete and has no
\* ready task, pending tasks with a failed dependency included), it raises the
\* deadlock error or returns at last.
C35_NoEndlessPolling ==
    \A r \in Runs :
        (loops[r].pc = "delay" /\ getInProgress(queue) = {}) ~> (loops[r].pc = "idle")

\* what the loop r reads when it decides whether the task it is executing gets
\* another attempt: the attempt number of the for statement and the handoffs
\* that the watchdog has recorded for the task
RerouteBudget(ls, w, r) ==
    [attempt |-> ls[r].attempt, handoffs |-> w.taskHandoffs[ls[r].cur.id]]

\* C36: no task is handed off or rerouted for ever: every response that is
\* stored as pending (a handoff with or without a target role, a retry) and
\* followed by another attempt is charged to a budget that runs out, the
\* attempt number or the recorded handoffs of the task, so that a task whose
\* agents always answer handoff or retry is failed at last and run() ends.
C36_EveryRerouteIsCharged ==
    [][\A r \in Runs :
          (StoredAsPending(r) /\ NextAttemptBegun(r))
              => RerouteBudget(loops', watchdog', r) # RerouteBudget(loops, watchdog, r)]_vars

\* the reroutes that are charged: a handoff that names a target role, while the
\* watchdog is enabled, adds a record to the handoffs of the task
TargetedHandoffIsCharged ==
    [][\A r \in Runs :
          (/\ StoredAsPending(r)
           /\ NextAttemptBegun(r)
           /\ lastOp'.new[1].target # NoRole
           /\ config.watchdogEnabled)
              => Len(watchdog'.taskHandoffs[loops[r].cur.id])
                     = Len(watchdog.taskHandoffs[loops[r].cur.id]) + 1]_vars

-----------------------------------------------------------------------------
(* Properties of the replanning budget *)

\* the planned task that id descends from by metadata.parentTaskId
RECURSIVE OriginOf(_, _)
OriginOf(q, id) ==
    IF q.tasks[id].parentTaskId = NoId THEN id
    ELSE OriginOf(q, q.tasks[id].parentTaskId)

RECURSIVE SumOfCounters(_, _)
SumOfCounters(counter, ids) ==
    IF ids = {} THEN 0
    ELSE LET id == CHOOSE x \in ids : TRUE
         IN  counter[id] + SumOfCounters(counter, ids \ {id})

\* the refineTask calls made for the task origin and for its replacements
LineageReplans(origin) ==
    SumOfCounters(replanAttempts, {id \in AllIds : OriginOf(queue, id) = origin})

\* C37: the replanning budget bounds the recovery of a lineage: the planner
\* is called at most maxReplanAttempts times for a planned task and all the
\* tasks that replaced it, taken together.
C37_LineageWithinReplanBudget ==
    \A origin \in TaskIds : LineageReplans(origin) <= MaxReplanAttempts

-----------------------------------------------------------------------------
(* Properties of the error of route() *)

\* the route() call made an assessTask call with the enhanced context
ReassessmentPerformed(outcome) ==
    \E i \in 1..Len(outcome.calls) : outcome.calls[i].context = "enhanced"

\* C38: the NoConfidentAgent error of route() has recoveryAttempted = true
\* exactly when the call performed a recovery re-assessment, and false when
\* it did not (no candidates, recovery disabled, no idle recovery candidate).
C38_RecoveryAttemptedIffReassessed ==
    routing.outcome.error.name = "NoConfidentAgentError"
        => (routing.outcome.error.recoveryAttempted
                <=> ReassessmentPerformed(routing.outcome))

\* the cases in which the flag is as claimed: recovery disabled, no candidates,
\* or an assessed agent that was idle when the assessments came back
RecoveryAttemptedWithIdleCandidate ==
    [][(/\ lastOp'.op \in {"route", "routeReturns"}
        /\ routing'.outcome.error.name = "NoConfidentAgentError"
        /\ \/ ~config.routerRecovery
           \/ routing'.agents = <<>>
           \/ \E i \in 1..Len(routing'.outcome.error.assessments) :
                 agentStatus[routing'.outcome.error.assessments[i].agentId] = "idle")
          => (routing'.outcome.error.recoveryAttempted
                  <=> ReassessmentPerformed(routing'.outcome))]_vars

\* C39: route() throws NoConfidentAgent only when no agent outside the
\* excluded roles is idle, or when the assessment of every such agent is
\* below the threshold, the recovery re-assessment included; in parallel and
\* in sequential mode and for every threshold.
C39_ThrowsOnlyBelowThreshold ==
    [][(/\ lastOp'.op \in {"route", "routeReturns"}
        /\ routing'.outcome.error.name = "NoConfidentAgentError")
          => IF lastOp'.op = "route"
             THEN eligibleAgents(St, lastOp'.new) = <<>>
             ELSE LET given == lastOp'.new[1]
                      enhanced == lastOp'.new[2]
                  IN  /\ \A i \in 1..Len(routing.agents) :
                            caughtConfidence(given[routing.agents[i]])
                                < config.confidenceThreshold
                      /\ ReassessmentPerformed(routing'.outcome)
                            => caughtConfidence(enhanced) < config.confidenceThreshold]_vars

\* the same of the agents that route() asked: the confidence of every
\* assessTask call it made is below the threshold
ThrowsOnlyWhenAssessedBelowThreshold ==
    [][(/\ lastOp'.op = "routeReturns"
        /\ routing'.outcome.error.name = "NoConfidentAgentError")
          => LET given == lastOp'.new[1]
                 enhanced == lastOp'.new[2]
                 calls == routing'.outcome.calls
             IN  \A i \in 1..Len(calls) :
                    caughtConfidence(IF calls[i].context = "enhanced" THEN enhanced
                                     ELSE given[calls[i].agentId])
                        < config.confidenceThreshold]_vars

-----------------------------------------------------------------------------
(* Properties of the handoff to a role *)

\* the last step was an accepted handoff of loop r to a target role: the task
\* is stored as pending with assignedTo = target, and its next attempt awaits
\* the router
HandedOffTo(r, target) ==
    /\ lastOp.op = "respondsWith"
    /\ lastOp.r = r
    /\ lastOp.new[1].next = "handoff"
    /\ lastOp.new[1].target = target
    /\ loops[r].pc = "routing"
    /\ loops[r].cur.status = "pending"
    /\ loops[r].cur.assignedTo = target

\* C40: after an accepted handoff that names the target role R, the next
\* attempt of the task is executed by an agent of role R.
C40_HandoffReachesTargetRole ==
    [][\A r \in Runs, target \in Roles, a \in Agents :
          (/\ HandedOffTo(r, target)
           /\ HasEvent(emitted', LoopEv("taskStarted", loops[r].cur.id, {a})))
              => AgentRole[a] = target]_vars

=============================================================================
